---------------------------- MODULE Spec2Model ----------------------------
(***************************************************************************)
(* A model of LogAnalyzer: the stage-tree parser (src/src/parser.py), the  *)
(* warning extractor and normalizer (src/src/extractor.py) and the         *)
(* stage-matched comparator (src/src/comparator.py).                       *)
(*                                                                         *)
(* A Python str is a sequence of one-character strings; a list is a        *)
(* sequence; a dict is a function on its key set; a set is a set.          *)
(***************************************************************************)
EXTENDS Integers, Sequences, FiniteSets, TLC

VARIABLES
    pc,             \* position of the modelled run
    cfg,            \* the Config in use
    raw_text,       \* normalize_warning: the line given to it
    normalized,     \* normalize_warning(raw_text, cfg)
    renormalized,   \* normalize_warning(normalized, cfg)
    log_lines,      \* parse_log: the lines of the log read so far
    line_number,    \* parse_log: the number of the last line read
    stack,          \* parse_log: the open stages, (indent, BuildStep) pairs
    all_steps,      \* parse_log: every BuildStep object made so far
    root_steps,     \* parse_log: the root stages
    old_target_steps, \* run_comparison: the old run's target stages
    new_target_steps, \* run_comparison: the new run's target stages
    old_warnings,   \* compare_logs: the old run's flat diagnostic list
    new_warnings,   \* compare_logs: the new run's flat diagnostic list
    summary,        \* compare_logs(old_warnings, new_warnings)
    swapped,        \* compare_logs(new_warnings, old_warnings)
    reordered,      \* compare_logs on stage-reordered copies of both lists
    relabelled,     \* compare_logs on copies with other original/file/line
    env,            \* main: the command line and the files it names
    calls,          \* main: the functions called so far, in order
    raised,         \* main: the exception that left the try block, if any
    exit_code,      \* main: the value returned, <<>> before main returns
    line_text,      \* calculate_indentation: the line given to it
    indentation     \* <<calculate_indentation(line_text)>>, <<>> before the call

normalizeVars == <<raw_text, normalized, renormalized>>
parseVars     == <<log_lines, line_number, stack, all_steps, root_steps>>
forestVars    == <<old_target_steps, new_target_steps>>
listVars      == <<old_warnings, new_warnings>>
summaryVars   == <<summary, swapped, reordered, relabelled>>
mainVars      == <<env, calls, raised, exit_code>>
indentVars    == <<line_text, indentation>>

vars == <<pc, cfg, normalizeVars, parseVars, forestVars, listVars, summaryVars,
         mainVars, indentVars>>

(***************************************************************************)
(* Characters and strings                                                  *)
(***************************************************************************)

\* The characters of the model in ascending code point order.
AsciiOrder ==
    <<"\t", "\n", " ", "!", "\"", "#", "$", "%", "&", "'", "(", ")", "*", "+",
      ",", "-", ".", "/", "0", "1", "2", "3", "4", "5", "6", "7", "8", "9",
      ":", ";", "<", "=", ">", "?", "@",
      "A", "B", "C", "D", "E", "F", "G", "H", "I", "J", "K", "L", "M",
      "N", "O", "P", "Q", "R", "S", "T", "U", "V", "W", "X", "Y", "Z",
      "[", "\\", "]", "^", "_",
      "a", "b", "c", "d", "e", "f", "g", "h", "i", "j", "k", "l", "m",
      "n", "o", "p", "q", "r", "s", "t", "u", "v", "w", "x", "y", "z",
      "{", "|", "}", "~">>

CharSet == {AsciiOrder[i] : i \in DOMAIN AsciiOrder}

\* ord(c), up to a strictly increasing renumbering.
Ord == [c \in CharSet |-> CHOOSE i \in DOMAIN AsciiOrder : AsciiOrder[i] = c]

Min(a, b) == IF a < b THEN a ELSE b

\* Python's a < b on str: lexicographic by code point, a proper prefix first.
StrLess(a, b) ==
    \E k \in 1..(Min(Len(a), Len(b)) + 1) :
        /\ \A j \in 1..(k - 1) : a[j] = b[j]
        /\ \/ k > Len(a) /\ k <= Len(b)
           \/ k <= Len(a) /\ k <= Len(b) /\ Ord[a[k]] < Ord[b[k]]

\* sorted(S) for a set of str.
RECURSIVE Sorted(_)
Sorted(S) ==
    IF S = {} THEN <<>>
    ELSE LET m == CHOOSE x \in S : \A y \in S \ {x} : StrLess(x, y)
         IN  <<m>> \o Sorted(S \ {m})

\* d.get(k, default)
DictGet(d, k, default) == IF k \in DOMAIN d THEN d[k] ELSE default

\* {f(x) for x in xs}
Range(xs) == {xs[i] : i \in DOMAIN xs}

\* All sequences over S of length at most n.
BoundedSeq(S, n) == UNION {[1..k -> S] : k \in 0..n}

(***************************************************************************)
(* comparator.py                                                           *)
(***************************************************************************)

\* Summary(): the by_type default of the dataclass.
by_type_default ==
    [t \in {"Warning", "Hint"} |-> [added |-> 0, removed |-> 0, unchanged |-> 0]]

\* Summary(); raised records an exception that leaves compare_logs.
NewSummary ==
    [total_added |-> 0, total_removed |-> 0, total_unchanged |-> 0,
     by_type |-> by_type_default, by_stage |-> <<>>, raised |-> "none"]

\* The value of a summary variable before compare_logs has run.
NoSummary == [NewSummary EXCEPT !.raised = "unset"]

\* group_by_stage: a dict from stage name to that stage's records, in order.
group_by_stage(warnings) ==
    [stage_name \in {warnings[i].stage : i \in DOMAIN warnings} |->
        SelectSeq(warnings, LAMBDA w : w.stage = stage_name)]

\* Variant of match_stages without the sort over the union: the names only
\* the new run has come first, then the old run's.
match_stages_unsorted(old_stages, new_stages) ==
    LET old_names == Sorted(DOMAIN old_stages)
        new_names == Sorted(DOMAIN new_stages \ DOMAIN old_stages)
        names     == new_names \o old_names
    IN  [i \in DOMAIN names |-> <<names[i], names[i]>>]

\* Variant of match_stages that takes the names of the new run only.
match_stages_new_only(old_stages, new_stages) ==
    LET names == Sorted(DOMAIN new_stages)
    IN  [i \in DOMAIN names |-> <<names[i], names[i]>>]

\* match_stages: every name of either run, sorted, paired with itself.
match_stages(old_stages, new_stages) ==
    LET all_stage_names == DOMAIN old_stages \cup DOMAIN new_stages
        names           == Sorted(all_stage_names)
    IN  [i \in DOMAIN names |-> <<names[i], names[i]>>]

\* Variant of texts_of that takes the records' original lines as keys.
texts_of_original(stage_warnings) ==
    {stage_warnings[i].original : i \in DOMAIN stage_warnings}

\* {w.text for w in stage_warnings}
texts_of(stage_warnings) == {stage_warnings[i].text : i \in DOMAIN stage_warnings}

added_texts(old_texts, new_texts) == new_texts \ old_texts

removed_texts(old_texts, new_texts) == old_texts \ new_texts

\* Variant of unchanged_texts that forgets the intersection.
unchanged_texts_all_old(old_texts, new_texts) == old_texts

unchanged_texts(old_texts, new_texts) == old_texts \cap new_texts

\* Variant of the list comprehensions below that keeps the first record of
\* each text only.
first_of_each_text(stage_warnings, keep_texts) ==
    LET kept == SelectSeq(stage_warnings, LAMBDA w : w.text \in keep_texts)
        idx  == {i \in DOMAIN kept : \A j \in 1..(i - 1) : kept[j].text # kept[i].text}
        RECURSIVE Pick(_)
        Pick(i) == IF i > Len(kept) THEN <<>>
                   ELSE (IF i \in idx THEN <<kept[i]>> ELSE <<>>) \o Pick(i + 1)
    IN  Pick(1)

\* [w for w in stage_warnings if w.text in keep_texts]
warnings_with_text(stage_warnings, keep_texts) ==
    SelectSeq(stage_warnings, LAMBDA w : w.text \in keep_texts)

\* added_warnings = [w for w in new_stage_warnings if w.text in added_texts]
added_warnings(new_stage_warnings, added) ==
    warnings_with_text(new_stage_warnings, added)

\* removed_warnings = [w for w in old_stage_warnings if w.text in removed_texts]
removed_warnings(old_stage_warnings, removed) ==
    warnings_with_text(old_stage_warnings, removed)

\* Variant of count_of_type that counts each text once.
count_of_type_distinct(stage_warnings, keep_texts, type) ==
    Cardinality({stage_warnings[i].text : i \in
        {j \in DOMAIN stage_warnings :
            /\ stage_warnings[j].text \in keep_texts
            /\ stage_warnings[j].type = type}})

\* Variant of count_of_type that counts the records of every type.
count_of_type_any(stage_warnings, keep_texts, type) ==
    Len(SelectSeq(stage_warnings, LAMBDA w : w.text \in keep_texts))

\* The number of records of stage_warnings with a text in keep_texts and
\* the given type.
count_of_type(stage_warnings, keep_texts, type) ==
    Len(SelectSeq(stage_warnings,
                  LAMBDA w : w.text \in keep_texts /\ w.type = type))

\* One iteration of the loop of compare_logs over stage_matches.
compare_stage(s, old_stages, new_stages, match) ==
    LET old_stage_warnings == DictGet(old_stages, match[1], <<>>)
        new_stage_warnings == DictGet(new_stages, match[2], <<>>)
        old_texts == texts_of(old_stage_warnings)
        new_texts == texts_of(new_stage_warnings)
        added     == added_texts(old_texts, new_texts)
        removed   == removed_texts(old_texts, new_texts)
        unchanged == unchanged_texts(old_texts, new_texts)
        added_list   == added_warnings(new_stage_warnings, added)
        removed_list == removed_warnings(old_stage_warnings, removed)
        result ==
            [stage_name         |-> match[2],
             added              |-> added_list,
             removed            |-> removed_list,
             unchanged_count    |-> Cardinality(unchanged),
             unchanged_warnings |-> count_of_type(old_stage_warnings, unchanged, "Warning"),
             unchanged_hints    |-> count_of_type(old_stage_warnings, unchanged, "Hint")]
        \* summary.by_type[warning.type] raises KeyError for a type that is
        \* no key of by_type
        tallied == Range(added_list) \cup Range(removed_list)
                   \cup Range(warnings_with_text(old_stage_warnings, unchanged))
    IN  IF s.raised # "none" THEN s
        ELSE IF \E w \in tallied : w.type \notin DOMAIN s.by_type
        THEN [s EXCEPT !.raised = "KeyError"]
        ELSE [s EXCEPT
                !.by_stage = IF \/ Len(added_list) > 0
                                \/ Len(removed_list) > 0
                                \/ result.unchanged_count > 0
                             THEN Append(@, result) ELSE @,
                !.total_added     = @ + Len(added_list),
                !.total_removed   = @ + Len(removed_list),
                !.total_unchanged = @ + result.unchanged_count,
                !.by_type = [t \in DOMAIN @ |->
                    [added     |-> @[t].added
                                   + count_of_type(added_list, added, t),
                     removed   |-> @[t].removed
                                   + count_of_type(removed_list, removed, t),
                     unchanged |-> @[t].unchanged
                                   + count_of_type(old_stage_warnings, unchanged, t)]]]

\* compare_logs: group, match, then fold compare_stage over the matches.
compare_logs(old, new) ==
    LET old_stages    == group_by_stage(old)
        new_stages    == group_by_stage(new)
        stage_matches == match_stages(old_stages, new_stages)
        RECURSIVE Loop(_, _)
        Loop(s, i) ==
            IF i > Len(stage_matches) THEN s
            ELSE Loop(compare_stage(s, old_stages, new_stages, stage_matches[i]), i + 1)
    IN  Loop(NewSummary, 1)

(***************************************************************************)
(* Python str operations and the regular expressions of extractor.py       *)
(***************************************************************************)

\* str.isspace() and the class \s, on the characters of the model.
IsSpace(c) == c \in {" ", "\t", "\n"}

\* \d
IsDigit(c) == c \in {"0", "1", "2", "3", "4", "5", "6", "7", "8", "9"}

UpperLetters == <<"A", "B", "C", "D", "E", "F", "G", "H", "I", "J", "K", "L", "M",
                  "N", "O", "P", "Q", "R", "S", "T", "U", "V", "W", "X", "Y", "Z">>

LowerLetters == <<"a", "b", "c", "d", "e", "f", "g", "h", "i", "j", "k", "l", "m",
                  "n", "o", "p", "q", "r", "s", "t", "u", "v", "w", "x", "y", "z">>

\* [A-Za-z]
IsLetter(c) == c \in Range(UpperLetters) \cup Range(LowerLetters)

\* c.lower()
LowerChar ==
    [c \in CharSet |->
        IF c \in Range(UpperLetters)
        THEN LowerLetters[CHOOSE i \in DOMAIN UpperLetters : UpperLetters[i] = c]
        ELSE c]

\* s.lower()
Lower(s) == [i \in DOMAIN s |-> LowerChar[s[i]]]

\* s[i:], with i a 1-based position
From(s, i) == SubSeq(s, i, Len(s))

\* The least element of a non-empty set of integers.
Least(S) == CHOOSE x \in S : \A y \in S : x <= y

\* The first position j >= i of s whose character is not white space,
\* Len(s) + 1 when there is none: where a greedy \s* that starts at i ends.
SkipSpaces(s, i) ==
    LET stops == {j \in i..Len(s) : ~IsSpace(s[j])}
    IN  IF stops = {} THEN Len(s) + 1 ELSE Least(stops)

\* The first position j >= i of s whose character is white space.
SkipNonSpaces(s, i) ==
    LET stops == {j \in i..Len(s) : IsSpace(s[j])}
    IN  IF stops = {} THEN Len(s) + 1 ELSE Least(stops)

\* The first position j >= i of s whose character is no digit.
SkipDigits(s, i) ==
    LET stops == {j \in i..Len(s) : ~IsDigit(s[j])}
    IN  IF stops = {} THEN Len(s) + 1 ELSE Least(stops)

\* s.lstrip()
LStrip(s) == From(s, SkipSpaces(s, 1))

\* s.rstrip()
RStrip(s) ==
    LET keep == {j \in 1..Len(s) : ~IsSpace(s[j])}
    IN  IF keep = {} THEN <<>> ELSE SubSeq(s, 1, CHOOSE x \in keep : \A y \in keep : y <= x)

\* s.strip()
Strip(s) == LStrip(RStrip(s))

\* s[i:].startswith(p), with i a 1-based position
MatchAt(s, i, p) ==
    /\ i >= 1
    /\ i + Len(p) - 1 <= Len(s)
    /\ SubSeq(s, i, i + Len(p) - 1) = p

\* The same, ignoring case (re.IGNORECASE on a literal).
MatchAtIgnoreCase(s, i, p) ==
    /\ i >= 1
    /\ i + Len(p) - 1 <= Len(s)
    /\ Lower(SubSeq(s, i, i + Len(p) - 1)) = Lower(p)

\* s.startswith(p)
StartsWith(s, p) == MatchAt(s, 1, p)

\* s.endswith(p)
EndsWith(s, p) == MatchAt(s, Len(s) - Len(p) + 1, p)

\* p in s
Contains(s, p) == \E i \in 1..(Len(s) - Len(p) + 1) : MatchAt(s, i, p)

\* s.index(c) for a character c that occurs in s (1-based)
IndexOf(s, c) == Least({i \in 1..Len(s) : s[i] = c})

\* int(digits)
RECURSIVE ToInt(_)
ToInt(digits) ==
    IF digits = <<>> THEN 0
    ELSE 10 * ToInt(SubSeq(digits, 1, Len(digits) - 1))
         + (Ord[digits[Len(digits)]] - Ord["0"])

(***************************************************************************)
(* config.py: Config                                                       *)
(***************************************************************************)

S_Hint    == <<"H", "i", "n", "t">>
S_Warning == <<"W", "a", "r", "n", "i", "n", "g">>

\* Config(): the defaults of the dataclass.  ignore_patterns is the set of
\* keys of the dict; the regular expression of each key is the default one
\* (TimestampEnd and PathPrefixEnd below).
DefaultConfig ==
    [target_steps |->
        <<[pattern |-> <<"S", "t", "e", "p", " ", "4", "/", "2", "1", ":", " ",
                         "B", "u", "i", "l", "d", "O", "r", "i", "o", "n", "P", "R", "O">>,
           name    |-> <<"B", "u", "i", "l", "d", "O", "r", "i", "o", "n", "P", "R", "O">>]>>,
     stage_markers |->
        <<(<<"<", "b", "u", "i", "l", "d", ">">>),
          (<<"<", "b", "r", "c", "c", ">">>),
          (<<"<", "d", "c", "c", ">">>)>>,
     warning_patterns |->
        <<[pattern |-> S_Warning \o <<":">>, type |-> "Warning"],
          [pattern |-> S_Hint \o <<":">>, type |-> "Hint"],
          [pattern |-> <<"[", "v", "i", "p", "]", "[", "w", "a", "r", "n", "i", "n", "g", "]">>,
           type    |-> "Warning"]>>,
     ignore_patterns |-> {"timestamp", "path_prefix"},
     output |-> [use_colors |-> TRUE, show_unchanged_count |-> TRUE,
                 group_by_stage |-> TRUE],
     comparison |-> [ignore_case |-> FALSE]]

\* Variant of validate_config that accepts every configuration.
validate_config_accepts_all(config) == "none"

\* validate_config: the exception it raises, "none" when it returns True.
\* The regular expressions of ignore_patterns are the defaults and compile,
\* and the values of output are booleans, so these two checks pass.
validate_config(config) ==
    IF config.target_steps = <<>> THEN "ConfigValidationError"
    ELSE IF \E i \in DOMAIN config.target_steps :
                \/ config.target_steps[i].pattern = <<>>
                \/ config.target_steps[i].name = <<>>
    THEN "ConfigValidationError"
    ELSE IF config.stage_markers = <<>> THEN "ConfigValidationError"
    ELSE IF config.warning_patterns = <<>> THEN "ConfigValidationError"
    ELSE IF \E i \in DOMAIN config.warning_patterns :
                \/ config.warning_patterns[i].pattern = <<>>
                \/ config.warning_patterns[i].type = ""
                \/ config.warning_patterns[i].type \notin {"Warning", "Hint"}
    THEN "ConfigValidationError"
    ELSE IF \E key \in DOMAIN config.output : config.output[key] \notin BOOLEAN
    THEN "ConfigValidationError"
    ELSE "none"

(***************************************************************************)
(* extractor.py: normalize_warning, one operator per re.sub                *)
(***************************************************************************)

\* re.sub(r"^\[(Hint|Warning)\]\s*", "", text, flags=re.IGNORECASE)
strip_kind_tag(text) ==
    LET tag(kw) == <<"[">> \o kw \o <<"]">>
    IN  IF MatchAtIgnoreCase(text, 1, tag(S_Hint))
        THEN From(text, SkipSpaces(text, Len(tag(S_Hint)) + 1))
        ELSE IF MatchAtIgnoreCase(text, 1, tag(S_Warning))
        THEN From(text, SkipSpaces(text, Len(tag(S_Warning)) + 1))
        ELSE text

\* The end (exclusive) of a match of the default "timestamp" pattern
\* ^\[\d{2}:\d{2}:\d{2}\] at the start of text, 0 when it does not match.
TimestampEnd(text) ==
    IF /\ Len(text) >= 10
       /\ text[1] = "[" /\ IsDigit(text[2]) /\ IsDigit(text[3])
       /\ text[4] = ":" /\ IsDigit(text[5]) /\ IsDigit(text[6])
       /\ text[7] = ":" /\ IsDigit(text[8]) /\ IsDigit(text[9])
       /\ text[10] = "]"
    THEN 11 ELSE 0

\* if "timestamp" in config.ignore_patterns: re.sub(timestamp_pattern, "", text)
strip_timestamp(text, config) ==
    IF "timestamp" \in config.ignore_patterns /\ TimestampEnd(text) > 0
    THEN From(text, TimestampEnd(text))
    ELSE text

\* re.sub(r"^\s*[A-Za-z ]?\s*:\s+", "", text): white space, at most one
\* letter, white space, a colon, at least one white space character.
strip_flag(text) ==
    LET j == SkipSpaces(text, 1)
        k == IF j <= Len(text) /\ IsLetter(text[j]) THEN j + 1 ELSE j
        c == SkipSpaces(text, k)
    IN  IF /\ c + 1 <= Len(text)
           /\ text[c] = ":"
           /\ IsSpace(text[c + 1])
        THEN From(text, SkipSpaces(text, c + 1))
        ELSE text

\* re.sub(r"^\s*\[([^\]]+)\]\s*", "", text): one leading bracketed token.
strip_bracket_prefix(text) ==
    LET j      == SkipSpaces(text, 1)
        closes == {b \in (j + 2)..Len(text) : text[b] = "]"}
    IN  IF /\ j + 1 <= Len(text)
           /\ text[j] = "["
           /\ text[j + 1] # "]"
           /\ closes # {}
        THEN From(text, SkipSpaces(text, Least(closes) + 1))
        ELSE text

PathPrefixLiteral == <<"N", ":", "\\", "B", "u", "i", "l", "d", "A", "r", "e", "a", "\\">>

\* The end (exclusive) of a match of the default "path_prefix" pattern
\* N:\\BuildArea\\[^\\]+\\ at position i of s, 0 when it does not match.
PathPrefixEnd(s, i) ==
    LET a      == i + Len(PathPrefixLiteral)
        closes == {b \in (a + 1)..Len(s) : s[b] = "\\"}
    IN  IF /\ MatchAt(s, i, PathPrefixLiteral)
           /\ a <= Len(s)
           /\ s[a] # "\\"
           /\ closes # {}
        THEN Least(closes) + 1
        ELSE 0

\* re.sub(path_prefix_pattern, "", s), scanning from position i.
RECURSIVE RemovePathPrefixes(_, _)
RemovePathPrefixes(s, i) ==
    IF i > Len(s) THEN <<>>
    ELSE IF PathPrefixEnd(s, i) > 0 THEN RemovePathPrefixes(s, PathPrefixEnd(s, i))
    ELSE <<s[i]>> \o RemovePathPrefixes(s, i + 1)

\* if "path_prefix" in config.ignore_patterns: re.sub(path_prefix_pattern, "", text)
strip_path_prefix(text, config) ==
    IF "path_prefix" \in config.ignore_patterns
    THEN RemovePathPrefixes(text, 1)
    ELSE text

\* [^\s()]
IsPathChar(c) == ~IsSpace(c) /\ c \notin {"(", ")"}

\* A match of ([^\s()]*[\\./][^\s()]+)\(\d+\) at position i of s: the run of
\* path characters from i ends at "(", holds a separator that is not its
\* last character, and digits and ")" follow.  keep is the end (inclusive)
\* of group 1, end the end (exclusive) of the match; end = 0: no match.
LineNumberMatch(s, i) ==
    LET stops == {j \in i..Len(s) : ~IsPathChar(s[j])}
        e     == IF stops = {} THEN Len(s) + 1 ELSE Least(stops)
        d     == SkipDigits(s, e + 1)
    IN  IF /\ \E k \in i..(e - 2) : s[k] \in {"\\", ".", "/"}
           /\ e <= Len(s) /\ s[e] = "("
           /\ d > e + 1
           /\ d <= Len(s) /\ s[d] = ")"
        THEN [keep |-> e - 1, end |-> d + 1]
        ELSE [keep |-> 0, end |-> 0]

\* re.sub(r"([^\s()]*[\\./][^\s()]+)\(\d+\)", r"\1", s), scanning from i.
RECURSIVE RemoveLineNumbers(_, _)
RemoveLineNumbers(s, i) ==
    IF i > Len(s) THEN <<>>
    ELSE LET m == LineNumberMatch(s, i)
         IN  IF m.end > 0
             THEN SubSeq(s, i, m.keep) \o RemoveLineNumbers(s, m.end)
             ELSE <<s[i]>> \o RemoveLineNumbers(s, i + 1)

strip_line_numbers(text) == RemoveLineNumbers(text, 1)

FileExtensions ==
    {<<"p", "a", "s">>, <<"d", "p", "r">>, <<"i", "n", "c">>, <<"t", "x", "t">>}

\* A match of \s*\S+\.(pas|dpr|inc|PAS|DPR|INC|txt|TXT)\s+(Hint|Warning):
\* with re.IGNORECASE at position i of s: white space, a word that ends in
\* "." and an extension after at least one character, white space, the
\* keyword and a colon.  kw is the position of the keyword (group 2), end
\* the end (exclusive) of the match; end = 0: no match.
FileKeywordMatch(s, i) ==
    LET j == SkipSpaces(s, i)
        e == SkipNonSpaces(s, j)
        k == SkipSpaces(s, e)
        n == IF MatchAtIgnoreCase(s, k, S_Hint) THEN Len(S_Hint)
             ELSE IF MatchAtIgnoreCase(s, k, S_Warning) THEN Len(S_Warning)
             ELSE 0
    IN  IF /\ e - 4 >= j + 1
           /\ s[e - 4] = "."
           /\ Lower(SubSeq(s, e - 3, e - 1)) \in FileExtensions
           /\ k > e
           /\ n > 0
           /\ k + n <= Len(s) /\ s[k + n] = ":"
        THEN [kw |-> k, end |-> k + n + 1]
        ELSE [kw |-> 0, end |-> 0]

\* re.sub(<the pattern above>, r"\2:", s, flags=re.IGNORECASE), scanning from i.
RECURSIVE RemoveFileBeforeKeyword(_, _)
RemoveFileBeforeKeyword(s, i) ==
    IF i > Len(s) THEN <<>>
    ELSE LET m == FileKeywordMatch(s, i)
         IN  IF m.end > 0
             THEN SubSeq(s, m.kw, m.end - 1) \o RemoveFileBeforeKeyword(s, m.end)
             ELSE <<s[i]>> \o RemoveFileBeforeKeyword(s, i + 1)

\* Variant of strip_file_before_keyword that keeps the file name in front of
\* the keyword.
strip_file_before_keyword_kept(text) == text

strip_file_before_keyword(text) == RemoveFileBeforeKeyword(text, 1)

\* re.sub(r"\s+", " ", s), scanning from i.
RECURSIVE CollapseSpaces(_, _)
CollapseSpaces(s, i) ==
    IF i > Len(s) THEN <<>>
    ELSE IF IsSpace(s[i]) THEN <<" ">> \o CollapseSpaces(s, SkipSpaces(s, i))
    ELSE <<s[i]>> \o CollapseSpaces(s, i + 1)

collapse_whitespace(text) == CollapseSpaces(text, 1)

\* if config.comparison.get("ignore_case", False): normalized.lower()
fold_case(text, config) ==
    IF config.comparison.ignore_case THEN Lower(text) ELSE text

\* normalize_warning: the steps in the order of the source.
normalize_warning(text, config) ==
    LET n0 == Strip(text)
        n1 == strip_kind_tag(n0)
        n2 == strip_timestamp(n1, config)
        n3 == strip_flag(n2)
        n4 == strip_bracket_prefix(n3)
        n5 == strip_path_prefix(n4, config)
        n6 == strip_line_numbers(n5)
        n7 == strip_file_before_keyword(n6)
        n8 == collapse_whitespace(n7)
        n9 == Strip(n8)
    IN  fold_case(n9, config)

(***************************************************************************)
(* extractor.py: parse_warning_details and extract_warnings                *)
(***************************************************************************)

\* Warning(text=..., original=..., type=..., stage=..., file_path=...,
\* line_number=...): the dataclass of extractor.py.
MakeWarning(text, original, type, stage, file_path, number) ==
    [text |-> text, original |-> original, type |-> type, stage |-> stage,
     file_path |-> file_path, line_number |-> number]

\* BuildStep(name=..., level=..., start_line=..., end_line=..., lines=...,
\* children=...): the dataclass of parser.py; children holds positions in
\* the sequence of all BuildStep objects of a forest.
BuildStep(name, level, start_line, end_line, lines, children) ==
    [name |-> name, level |-> level, start_line |-> start_line,
     end_line |-> end_line, lines |-> lines, children |-> children]

\* (?:pas|dpr|inc|PAS|DPR|INC): all lower case or all upper case.
SourceExtensions ==
    {<<"p", "a", "s">>, <<"d", "p", "r">>, <<"i", "n", "c">>,
     <<"P", "A", "S">>, <<"D", "P", "R">>, <<"I", "N", "C">>}

\* A match at position i of text of one alternative of group 1 followed by
\* \((\d+)\): the run of characters from position from that are neither
\* white space nor parentheses (nor, with no_colon, a colon) ends at "(",
\* ends in "." and an extension after at least one character, and digits
\* and ")" follow.  path_end is the end (inclusive) of group 1; 0: no match.
DetailsMatchFrom(text, from, no_colon) ==
    LET stops == {j \in from..Len(text) :
                     ~IsPathChar(text[j]) \/ (no_colon /\ text[j] = ":")}
        e     == IF stops = {} THEN Len(text) + 1 ELSE Least(stops)
        d     == SkipDigits(text, e + 1)
    IN  IF /\ e - 4 >= from + 1
           /\ text[e - 4] = "."
           /\ SubSeq(text, e - 3, e - 1) \in SourceExtensions
           /\ e <= Len(text) /\ text[e] = "("
           /\ d > e + 1
           /\ d <= Len(text) /\ text[d] = ")"
        THEN [path_end |-> e - 1, digits |-> SubSeq(text, e + 1, d - 1)]
        ELSE [path_end |-> 0, digits |-> <<>>]

\* The match of the pattern of parse_warning_details at position i: first
\* the alternative [A-Za-z]:[^\s()]+\.ext, then [^\s():]+\.ext.
DetailsMatch(text, i) ==
    LET drive == IF i + 1 <= Len(text) /\ IsLetter(text[i]) /\ text[i + 1] = ":"
                 THEN DetailsMatchFrom(text, i + 2, FALSE)
                 ELSE [path_end |-> 0, digits |-> <<>>]
    IN  IF drive.path_end > 0 THEN drive ELSE DetailsMatchFrom(text, i, TRUE)

\* parse_warning_details: re.search takes the leftmost match.
parse_warning_details(text) ==
    LET starts == {i \in 1..Len(text) : DetailsMatch(text, i).path_end > 0}
    IN  IF starts = {} THEN <<(<<>>), 0>>
        ELSE LET i == Least(starts)
                 m == DetailsMatch(text, i)
             IN  <<SubSeq(text, i, m.path_end), ToInt(m.digits)>>

\* The patterns of config.warning_patterns that occur in line, by position
\* in the configured list.
MatchingPatterns(line, config) ==
    {p \in DOMAIN config.warning_patterns :
        Contains(line, config.warning_patterns[p].pattern)}

\* Variant of extract_line that takes the pattern that occurs leftmost in
\* the line.
extract_line_leftmost(line, stage, config) ==
    IF MatchingPatterns(line, config) = {} THEN <<>>
    ELSE LET first_at(p) ==
                 Least({i \in 1..Len(line) :
                           MatchAt(line, i, config.warning_patterns[p].pattern)})
             leftmost == CHOOSE p \in MatchingPatterns(line, config) :
                             \A q \in MatchingPatterns(line, config) :
                                 first_at(p) <= first_at(q)
             details == parse_warning_details(line)
         IN  <<MakeWarning(normalize_warning(line, config), Strip(line),
                           config.warning_patterns[leftmost].type, stage,
                           details[1], details[2])>>

\* The body of the loop of extract_warnings over step.lines for one line:
\* the record of the first configured pattern that occurs in the line, or
\* nothing.
extract_line(line, stage, config) ==
    IF MatchingPatterns(line, config) = {} THEN <<>>
    ELSE LET warning_pattern ==
                 config.warning_patterns[Least(MatchingPatterns(line, config))]
             details == parse_warning_details(line)
         IN  <<MakeWarning(normalize_warning(line, config), Strip(line),
                           warning_pattern.type, stage, details[1], details[2])>>

\* The first loop of extract_warnings: the records of the step's own lines.
RECURSIVE extract_own_lines(_, _, _, _)
extract_own_lines(lines, i, stage, config) ==
    IF i > Len(lines) THEN <<>>
    ELSE extract_line(lines[i], stage, config)
         \o extract_own_lines(lines, i + 1, stage, config)

\* Variant of extract_warnings that takes the children's records before the
\* step's own.
RECURSIVE extract_warnings_children_first(_, _, _)
extract_warnings_children_first(nodes, step, config) ==
    LET RECURSIVE Children(_)
        Children(k) ==
            IF k > Len(nodes[step].children) THEN <<>>
            ELSE extract_warnings_children_first(nodes, nodes[step].children[k], config)
                 \o Children(k + 1)
    IN  Children(1)
        \o extract_own_lines(nodes[step].lines, 1, nodes[step].name, config)

\* extract_warnings(step, config).  A forest is an arena: nodes is the
\* sequence of BuildStep objects and children holds positions in it; step
\* is the position of the BuildStep.
RECURSIVE extract_warnings(_, _, _)
extract_warnings(nodes, step, config) ==
    LET RECURSIVE Children(_)
        Children(k) ==
            IF k > Len(nodes[step].children) THEN <<>>
            ELSE extract_warnings(nodes, nodes[step].children[k], config)
                 \o Children(k + 1)
    IN  extract_own_lines(nodes[step].lines, 1, nodes[step].name, config)
        \o Children(1)

\* The loops of run_comparison over the target steps of one run:
\* for step in target_steps: warnings.extend(extract_warnings(step, config))
RECURSIVE extract_target_warnings(_, _, _, _)
extract_target_warnings(nodes, steps, k, config) ==
    IF k > Len(steps) THEN <<>>
    ELSE extract_warnings(nodes, steps[k], config)
         \o extract_target_warnings(nodes, steps, k + 1, config)

(***************************************************************************)
(* parser.py: calculate_indentation, _extract_step_info, parse_log         *)
(***************************************************************************)

\* Variant of calculate_indentation in which a tab counts as one character.
RECURSIVE calculate_indentation_chars(_)
calculate_indentation_chars(line) ==
    IF line = <<>> THEN 0
    ELSE IF Head(line) \in {" ", "\t"} THEN 1 + calculate_indentation_chars(Tail(line))
    ELSE 0

\* calculate_indentation: a space counts 1, a tab 4, up to the first other
\* character.
RECURSIVE calculate_indentation(_)
calculate_indentation(line) ==
    IF line = <<>> THEN 0
    ELSE IF Head(line) = " " THEN 1 + calculate_indentation(Tail(line))
    ELSE IF Head(line) = "\t" THEN 4 + calculate_indentation(Tail(line))
    ELSE 0

\* The first part of _extract_step_info: clean_line, the line without its
\* first bracketed token and without the text up to the first colon after it.
clean_line_of(line) ==
    IF StartsWith(Strip(line), <<"[">>) /\ Contains(line, <<"]">>)
    THEN LET first_bracket_end == IndexOf(line, "]")
             after_timestamp   == From(line, first_bracket_end + 1)
         IN  IF Contains(after_timestamp, <<":">>)
             THEN From(after_timestamp, IndexOf(after_timestamp, ":") + 1)
             ELSE after_timestamp
    ELSE line

\* content: clean_line without its indentation and without one leading
\* bracketed prefix.
content_of(clean_line) ==
    LET content == LStrip(clean_line)
    IN  IF StartsWith(content, <<"[">>) /\ Contains(content, <<"]">>)
        THEN LStrip(From(content, IndexOf(content, "]") + 1))
        ELSE content

\* A match of <([^>]+)>: at position i of content: "<", at least one
\* character that is not ">", the first ">" after it, and a colon.  close
\* is the position of that ">"; 0: no match.
MarkerMatch(content, i) ==
    LET closes == {g \in (i + 2)..Len(content) : content[g] = ">"}
    IN  IF /\ i + 1 <= Len(content)
           /\ content[i] = "<"
           /\ content[i + 1] # ">"
           /\ closes # {}
           /\ Least(closes) + 1 <= Len(content)
           /\ content[Least(closes) + 1] = ":"
        THEN Least(closes)
        ELSE 0

\* re.findall(r"<([^>]+)>:", content), scanning from position i: the groups
\* of the non-overlapping matches, left to right.
RECURSIVE FindMarkers(_, _)
FindMarkers(content, i) ==
    IF i > Len(content) THEN <<>>
    ELSE IF MarkerMatch(content, i) > 0
    THEN <<SubSeq(content, i + 1, MarkerMatch(content, i) - 1)>>
         \o FindMarkers(content, MarkerMatch(content, i) + 2)
    ELSE FindMarkers(content, i + 1)

\* The positions in config.target_steps of the targets whose pattern occurs
\* in the line.
MatchingTargets(line, config) ==
    {t \in DOMAIN config.target_steps :
        Contains(line, config.target_steps[t].pattern)}

\* The second loop of _extract_step_info: the first match that is a
\* configured stage marker or ends in ".dpr", in angle brackets; None when
\* there is none.
None == <<>>

marker_step_name(content, config) ==
    LET matches    == FindMarkers(content, 1)
        bracketed(m) == <<"<">> \o m \o <<">">>
        qualifying == {k \in DOMAIN matches :
                          \/ bracketed(matches[k]) \in Range(config.stage_markers)
                          \/ EndsWith(matches[k], <<".", "d", "p", "r">>)}
    IN  IF qualifying = {} THEN None
        ELSE bracketed(matches[Least(qualifying)])

\* Variant of _extract_step_info that looks for a marker before it looks
\* for a target pattern.
extract_step_info_marker_first(line, config) ==
    LET clean_line == clean_line_of(line)
        indent     == calculate_indentation(clean_line)
        content    == content_of(clean_line)
    IN  IF marker_step_name(content, config) # None
        THEN <<marker_step_name(content, config), indent>>
        ELSE IF MatchingTargets(line, config) # {}
        THEN <<config.target_steps[Least(MatchingTargets(line, config))].name, indent>>
        ELSE None

\* _extract_step_info: (step_name, indent) when the line opens a stage,
\* else None.
extract_step_info(line, config) ==
    LET clean_line == clean_line_of(line)
        indent     == calculate_indentation(clean_line)
        content    == content_of(clean_line)
    IN  IF MatchingTargets(line, config) # {}
        THEN <<config.target_steps[Least(MatchingTargets(line, config))].name, indent>>
        ELSE IF marker_step_name(content, config) # None
        THEN <<marker_step_name(content, config), indent>>
        ELSE None

\* Variant of closes_at that closes only the stages that are strictly deeper.
closes_strictly_deeper(depth, indent) == depth > indent

\* The test of the closing loop of parse_log: stack[-1][0] >= indent.
closes_at(depth, indent) == depth >= indent

\* The state of parse_log: the stack of (indent, BuildStep), all BuildStep
\* objects made so far (a stack entry, a children list and root_steps hold
\* positions in nodes), and root_steps.

\* Variant of close_deeper that sets end_line to the line that closes.
RECURSIVE close_deeper_through_line(_, _, _)
close_deeper_through_line(p, indent, n) ==
    IF p.stack # <<>> /\ closes_at(p.stack[Len(p.stack)][1], indent)
    THEN LET closed_step == p.stack[Len(p.stack)][2]
         IN  close_deeper_through_line(
                 [p EXCEPT !.stack = SubSeq(@, 1, Len(@) - 1),
                           !.nodes[closed_step].end_line = n],
                 indent, n)
    ELSE p

\* while stack and stack[-1][0] >= indent: pop, closed_step.end_line = n - 1
RECURSIVE close_deeper(_, _, _)
close_deeper(p, indent, n) ==
    IF p.stack # <<>> /\ closes_at(p.stack[Len(p.stack)][1], indent)
    THEN LET closed_step == p.stack[Len(p.stack)][2]
         IN  close_deeper(
                 [p EXCEPT !.stack = SubSeq(@, 1, Len(@) - 1),
                           !.nodes[closed_step].end_line = n - 1],
                 indent, n)
    ELSE p

\* The branch of parse_log for a line that opens a stage.
open_stage(p, step_name, indent, line, n) ==
    LET new_step == Len(p.nodes) + 1
        made     == [p EXCEPT !.nodes =
                        Append(@, BuildStep(step_name, indent, n, n, <<line>>, <<>>))]
        closed   == close_deeper(made, indent, n)
        linked   == IF closed.stack # <<>>
                    THEN LET parent_step == closed.stack[Len(closed.stack)][2]
                         IN  [closed EXCEPT !.nodes[parent_step].children =
                                                Append(@, new_step)]
                    ELSE [closed EXCEPT !.root_steps = Append(@, new_step)]
    IN  [linked EXCEPT !.stack = Append(@, <<indent, new_step>>)]

\* Variant of append_content that appends to the outermost open stage.
append_content_to_outermost(p, line, n) ==
    IF p.stack # <<>>
    THEN LET current_step == p.stack[1][2]
         IN  [p EXCEPT !.nodes[current_step].lines = Append(@, line),
                       !.nodes[current_step].end_line = n]
    ELSE p

\* Variant of append_content that first closes the open stages that are
\* deeper than the indentation of the line.
append_content_by_indentation(p, line, n) ==
    LET q == close_deeper(p, calculate_indentation(line) + 1, n)
    IN  IF q.stack # <<>>
        THEN LET current_step == q.stack[Len(q.stack)][2]
             IN  [q EXCEPT !.nodes[current_step].lines = Append(@, line),
                           !.nodes[current_step].end_line = n]
        ELSE q

\* The branch of parse_log for a line that opens no stage.
append_content(p, line, n) ==
    IF p.stack # <<>>
    THEN LET current_step == p.stack[Len(p.stack)][2]
         IN  [p EXCEPT !.nodes[current_step].lines = Append(@, line),
                       !.nodes[current_step].end_line = n]
    ELSE p

\* Variant of close_remaining that leaves end_line as the last line of the
\* stage has set it.
close_remaining_keeps_end_line(p, n) == [p EXCEPT !.stack = <<>>]

\* while stack: pop, closed_step.end_line = line_number
RECURSIVE close_remaining(_, _)
close_remaining(p, n) ==
    IF p.stack # <<>>
    THEN LET closed_step == p.stack[Len(p.stack)][2]
         IN  close_remaining(
                 [p EXCEPT !.stack = SubSeq(@, 1, Len(@) - 1),
                           !.nodes[closed_step].end_line = n],
                 n)
    ELSE p

\* The body of the loop of parse_log for line number n.
parse_line(p, line, n, config) ==
    IF Strip(line) = <<>> THEN p
    ELSE LET step_info == extract_step_info(line, config)
         IN  IF step_info # None
             THEN open_stage(p, step_info[1], step_info[2], line, n)
             ELSE append_content(p, line, n)

\* The for loop of parse_log from line number n on.
RECURSIVE parse_lines(_, _, _, _)
parse_lines(p, lines, n, config) ==
    IF n > Len(lines) THEN p
    ELSE parse_lines(parse_line(p, lines[n], n, config), lines, n + 1, config)

\* parse_log on the lines that _read_log_file returns: the BuildStep objects
\* and root_steps.
parse_log(lines, config) ==
    close_remaining(
        parse_lines([stack |-> <<>>, nodes |-> <<>>, root_steps |-> <<>>],
                    lines, 1, config),
        Len(lines))

\* Variant of extract_target_steps that also descends into the stages that
\* are targets.
RECURSIVE extract_target_steps_nested(_, _, _)
extract_target_steps_nested(nodes, steps, config) ==
    IF \E t \in DOMAIN config.target_steps :
           config.target_steps[t].pattern = <<"*">>
    THEN steps
    ELSE IF steps = <<>> THEN <<>>
    ELSE LET step == steps[1]
             is_target ==
                 \E t \in DOMAIN config.target_steps :
                     \/ config.target_steps[t].name = nodes[step].name
                     \/ Contains(nodes[step].name, config.target_steps[t].pattern)
         IN  (IF is_target THEN <<step>> ELSE <<>>)
             \o extract_target_steps_nested(nodes, nodes[step].children, config)
             \o extract_target_steps_nested(nodes, Tail(steps), config)

\* extract_target_steps(steps, config), steps being positions in nodes.
RECURSIVE extract_target_steps(_, _, _)
extract_target_steps(nodes, steps, config) ==
    IF \E t \in DOMAIN config.target_steps :
           config.target_steps[t].pattern = <<"*">>
    THEN steps
    ELSE IF steps = <<>> THEN <<>>
    ELSE LET step == steps[1]
             is_target ==
                 \E t \in DOMAIN config.target_steps :
                     \/ config.target_steps[t].name = nodes[step].name
                     \/ Contains(nodes[step].name, config.target_steps[t].pattern)
         IN  (IF is_target THEN <<step>>
              ELSE extract_target_steps(nodes, nodes[step].children, config))
             \o extract_target_steps(nodes, Tail(steps), config)

(***************************************************************************)
(* Values of the variables a specification does not use                    *)
(***************************************************************************)

\* No stages: no BuildStep objects, an empty list of steps.
NoForest == [nodes |-> <<>>, steps |-> <<>>]

IdleNormalize == raw_text = <<>> /\ normalized = <<>> /\ renormalized = <<>>

\* parse_log before its first line: no line read, nothing open, no stage.
IdleParse ==
    /\ log_lines = <<>>
    /\ line_number = 0
    /\ stack = <<>>
    /\ all_steps = <<>>
    /\ root_steps = <<>>

IdleForests == old_target_steps = NoForest /\ new_target_steps = NoForest

IdleLists == old_warnings = <<>> /\ new_warnings = <<>>

IdleSummaries ==
    /\ summary = NoSummary
    /\ swapped = NoSummary
    /\ reordered = NoSummary
    /\ relabelled = NoSummary

\* main before it is called: no command line, no call, no exception, no
\* return value.
NoEnv == [given |-> FALSE]

IdleMain == env = NoEnv /\ calls = <<>> /\ raised = "none" /\ exit_code = <<>>
IdleIndent == line_text = <<>> /\ indentation = <<>>

(***************************************************************************)
(* The parser on its own: parse_log reading a log line by line             *)
(***************************************************************************)

\* A log of SpecParse has at most MaxLogLines lines.
MaxLogLines == 4

LineOpenAbd ==
    <<"<", "A", "b", "d", ".", "d", "p", "r", ">", ":", " ", "g", "o", "\n">>
LineOpenBuild ==
    <<"\t", "<", "b", "u", "i", "l", "d", ">", ":", " ", "g", "o", "\n">>
LineOpenDcc ==
    <<"\t", "\t", "<", "d", "c", "c", ">", ":", " ", "g", "o", "\n">>
LineOpenCore ==
    <<"[", "1", "4", ":", "1", "3", ":", "2", "7", "]", " ", ":", "\t", " ",
      "[", "S", "t", "e", "p", " ", "4", "/", "2", "1", "]", " ",
      "<", "C", "o", "r", "e", ".", "d", "p", "r", ">", ":", " ",
      "<", "b", "u", "i", "l", "d", ">", " ", "(", "2", "s", ")", "\n">>
LineContent ==
    <<"\t", "\t", "W", "a", "r", "n", "i", "n", "g", ":", " ", "F", "o", "o", "\n">>
LineBlank == <<" ", "\n">>
LineUnindented == <<"d", "o", "n", "e", "\n">>
LineTarget ==
    <<"S", "t", "e", "p", " ", "4", "/", "2", "1", ":", " ",
      "B", "u", "i", "l", "d", "O", "r", "i", "o", "n", "P", "R", "O", " ",
      "<", "b", "u", "i", "l", "d", ">", ":", " ", "g", "o", "\n">>

ParseLines ==
    {LineOpenAbd, LineOpenBuild, LineOpenDcc, LineOpenCore, LineContent,
     LineUnindented, LineBlank, LineTarget}

NameOrion == <<"O", "r", "i", "o", "n">>
NameStep4 == <<"S", "t", "e", "p", "4">>

\* A configuration with two targets, listed against the order in which
\* their patterns occur in LineTarget.
TwoTargetConfig ==
    [DefaultConfig EXCEPT !.target_steps =
        <<[pattern |-> <<"B", "u", "i", "l", "d", "O", "r", "i", "o", "n">>,
           name    |-> NameOrion],
          [pattern |-> <<"S", "t", "e", "p", " ", "4", "/", "2", "1">>,
           name    |-> NameStep4]>>]

ParseConfigs == {DefaultConfig, TwoTargetConfig}

InitParse ==
    /\ pc = "parsing"
    /\ cfg \in ParseConfigs
    /\ IdleParse
    /\ IdleNormalize
    /\ IdleForests
    /\ IdleLists
    /\ IdleSummaries
    /\ IdleMain
    /\ IdleIndent

\* The local state of parse_log.
ParserState ==
    [stack |-> stack, nodes |-> all_steps, root_steps |-> root_steps]

\* One iteration of the loop of parse_log, on the next line of the log.
ReadLine(line) ==
    /\ pc = "parsing"
    /\ line_number < MaxLogLines
    /\ LET p == parse_line(ParserState, line, line_number + 1, cfg)
       IN  /\ stack' = p.stack
           /\ all_steps' = p.nodes
           /\ root_steps' = p.root_steps
    /\ log_lines' = Append(log_lines, line)
    /\ line_number' = line_number + 1
    /\ UNCHANGED <<indentVars, pc, cfg, mainVars, normalizeVars, forestVars, listVars, summaryVars>>

\* The lines of SpecParse that parse_log skips, and for each configuration
\* of SpecParse the lines that open a stage.
BlankLines == {line \in ParseLines : Strip(line) = <<>>}
OpeningLines ==
    [config \in ParseConfigs |->
        {line \in ParseLines \ BlankLines : extract_step_info(line, config) # None}]

\* if not line.strip(): continue
SkipBlankLine ==
    \E line \in BlankLines : ReadLine(line)

\* if step_info: ...
OpenStage ==
    \E line \in OpeningLines[cfg] : ReadLine(line)

\* else: ...
AppendContent ==
    \E line \in (ParseLines \ BlankLines) \ OpeningLines[cfg] : ReadLine(line)

\* The end of the log: the loop after the for loop, and the return.
EndOfInput ==
    /\ pc = "parsing"
    /\ LET p == close_remaining(ParserState, line_number)
       IN  /\ stack' = p.stack
           /\ all_steps' = p.nodes
           /\ root_steps' = p.root_steps
    /\ pc' = "parsed_log"
    /\ UNCHANGED <<indentVars, cfg, mainVars, log_lines, line_number, normalizeVars, forestVars,
                   listVars, summaryVars>>

NextParse == SkipBlankLine \/ OpenStage \/ AppendContent \/ EndOfInput

SpecParse == InitParse /\ [][NextParse]_vars

(***************************************************************************)
(* The normalizer on its own: normalize_warning applied to a line, and     *)
(* again to its own result                                                 *)
(***************************************************************************)

\* The lines of SpecNormalize are built from at most MaxFragments fragments.
MaxFragments == 3

NormalizeFragments ==
    {<<"[", "1", "4", ":", "1", "3", ":", "3", "0", "]">>,
     <<"[", "<", "d", "c", "c", ">", "]">>,
     <<"[", "H", "i", "n", "t", "]">>,
     <<" ">>,
     <<"\t">>,
     <<":">>,
     <<"W">>,
     <<"f", "i", "l", "e", ".", "p", "a", "s">>,
     <<"(", "1", "2", "3", ")">>,
     <<"W", "a", "r", "n", "i", "n", "g", ":">>,
     <<"N", ":", "\\", "B", "u", "i", "l", "d", "A", "r", "e", "a", "\\", "x", "\\">>}

\* The concatenation of a sequence of strings.
RECURSIVE Concat(_)
Concat(parts) == IF parts = <<>> THEN <<>> ELSE Head(parts) \o Concat(Tail(parts))

NormalizeInputs == {Concat(parts) : parts \in BoundedSeq(NormalizeFragments, MaxFragments)}

\* Config() with the ignore_patterns dict of the defaults or an empty one,
\* and comparison.ignore_case set or not.
NormalizeConfigs ==
    {[DefaultConfig EXCEPT !.ignore_patterns = ip, !.comparison = [ignore_case |-> ic]] :
        ip \in {{"timestamp", "path_prefix"}, {}}, ic \in BOOLEAN}

InitNormalize ==
    /\ pc = "line"
    /\ cfg \in NormalizeConfigs
    /\ raw_text \in NormalizeInputs
    /\ normalized = <<>>
    /\ renormalized = <<>>
    /\ IdleParse
    /\ IdleForests
    /\ IdleLists
    /\ IdleSummaries
    /\ IdleMain
    /\ IdleIndent

\* normalized = normalize_warning(raw_text, cfg)
Normalize ==
    /\ pc = "line"
    /\ normalized' = normalize_warning(raw_text, cfg)
    /\ pc' = "normalized"
    /\ UNCHANGED <<indentVars, cfg, mainVars, raw_text, renormalized, parseVars, forestVars, listVars, summaryVars>>

\* renormalized = normalize_warning(normalized, cfg)
NormalizeAgain ==
    /\ pc = "normalized"
    /\ renormalized' = normalize_warning(normalized, cfg)
    /\ pc' = "renormalized"
    /\ UNCHANGED <<indentVars, cfg, mainVars, raw_text, normalized, parseVars, forestVars, listVars, summaryVars>>

NextNormalize == Normalize \/ NormalizeAgain

SpecNormalize == InitNormalize /\ [][NextNormalize]_vars

\* The stage names of the bounded inputs.
StageA == <<"<", "A", "b", "d", ".", "d", "p", "r", ">">>
StageB == <<"<", "C", "o", "r", "e", ".", "d", "p", "r", ">">>

(***************************************************************************)
(* Extraction and comparison: steps 4 to 6 of run_comparison, from the     *)
(* target stages of the two runs                                           *)
(***************************************************************************)

\* A stage of SpecExtract holds at most MaxStepLines lines.
MaxStepLines == 1

LineDcc ==
    <<"[", "1", "4", ":", "1", "3", ":", "3", "0", "]", " ", ":", "\t", " ",
      "[", "<", "d", "c", "c", ">", "]", " ",
      "f", "i", "l", "e", ".", "p", "a", "s", "(", "1", "2", "3", ")", " ",
      "W", "a", "r", "n", "i", "n", "g", ":", " ",
      "u", "n", "u", "s", "e", "d", " ", "v", "a", "r", "i", "a", "b", "l", "e", "\n">>
LineWarningFoo == <<"W", "a", "r", "n", "i", "n", "g", ":", " ", "F", "o", "o", "\n">>
LineLowerFoo   == <<"w", "a", "r", "n", "i", "n", "g", ":", " ", "f", "o", "o", "\n">>
LineHintFoo    == <<"H", "i", "n", "t", ":", " ", "F", "o", "o", "\n">>
LineCompiling  == <<"C", "o", "m", "p", "i", "l", "i", "n", "g", "\n">>

ExtractLines == {LineDcc, LineWarningFoo, LineLowerFoo, LineHintFoo, LineCompiling}

\* The line that opens the target step of the default configuration, and
\* the lines that open the stages StageA and StageB inside it.
LineOpenTarget ==
    <<"S", "t", "e", "p", " ", "4", "/", "2", "1", ":", " ",
      "B", "u", "i", "l", "d", "O", "r", "i", "o", "n", "P", "R", "O", "\n">>
LineOpenStage(name) == <<"\t">> \o name \o <<":", "\n">>

\* The logs of SpecExtract: the target step, one stage in it, and the
\* stage's content lines.
ExtractLogs ==
    {<<LineOpenTarget, LineOpenStage(name)>> \o content :
        name \in {StageA, StageB},
        content \in BoundedSeq(ExtractLines, MaxStepLines)}

\* Steps 2 and 3 of run_comparison for one log: parse_log, then
\* extract_target_steps on its root steps.
TargetForest(lines, config) ==
    LET p == parse_log(lines, config)
    IN  [nodes |-> p.nodes,
         steps |-> extract_target_steps(p.nodes, p.root_steps, config)]

\* Config() with comparison.ignore_case set or not.
ExtractConfigs ==
    {[DefaultConfig EXCEPT !.comparison = [ignore_case |-> ic]] : ic \in BOOLEAN}

InitExtract ==
    /\ pc = "parsed"
    /\ cfg \in ExtractConfigs
    /\ \E old_log \in ExtractLogs : old_target_steps = TargetForest(old_log, cfg)
    /\ \E new_log \in ExtractLogs : new_target_steps = TargetForest(new_log, cfg)
    /\ IdleLists
    /\ IdleNormalize
    /\ IdleParse
    /\ IdleSummaries
    /\ IdleMain
    /\ IdleIndent

\* Step 4 of run_comparison: the warnings of the old run's target steps.
ExtractOld ==
    /\ pc = "parsed"
    /\ old_warnings' = extract_target_warnings(old_target_steps.nodes,
                                               old_target_steps.steps, 1, cfg)
    /\ pc' = "old_extracted"
    /\ UNCHANGED <<indentVars, cfg, mainVars, normalizeVars, parseVars, forestVars, new_warnings, summaryVars>>

\* Step 5 of run_comparison: the warnings of the new run's target steps.
ExtractNew ==
    /\ pc = "old_extracted"
    /\ new_warnings' = extract_target_warnings(new_target_steps.nodes,
                                               new_target_steps.steps, 1, cfg)
    /\ pc' = "extracted"
    /\ UNCHANGED <<indentVars, cfg, mainVars, normalizeVars, parseVars, forestVars, old_warnings, summaryVars>>

(***************************************************************************)
(* Target selection and extraction on a parsed log: extract_target_steps   *)
(* and extract_warnings on the forest that parse_log returns               *)
(***************************************************************************)

\* A log of SpecTree opens at most MaxStages stages.
MaxStages == 3

\* A line with the pattern "Hint:" to the left of the pattern "Warning:".
LineHintWarning ==
    <<"H", "i", "n", "t", ":", " ", "s", "e", "e", " ",
      "W", "a", "r", "n", "i", "n", "g", ":", " ", "B", "a", "r", "\n">>

\* The lines of SpecTree that can open a stage, at depths 0, 4 and 8, and
\* what follows such a line: nothing or one line of content.
TreeOpenLines == {LineOpenTarget, LineOpenStage(StageA), LineOpenDcc}
TreeContents == {<<>>, <<LineWarningFoo>>, <<LineHintWarning>>}
TreeBlocks == {<<open>> \o content : open \in TreeOpenLines, content \in TreeContents}

TreeLogs == {Concat(blocks) : blocks \in BoundedSeq(TreeBlocks, MaxStages)}

\* The wildcard target, and the warning patterns with "Hint:" first.
WildcardConfig ==
    [DefaultConfig EXCEPT
        !.target_steps = <<[pattern |-> <<"*">>, name |-> <<"A", "l", "l">>]>>,
        !.warning_patterns = <<[type |-> "Hint", pattern |-> S_Hint \o <<":">>],
                               [type |-> "Warning", pattern |-> S_Warning \o <<":">>]>>]

\* The default target and the target "Compile" for the <dcc> stages.
NestedTargetsConfig ==
    [DefaultConfig EXCEPT
        !.target_steps = Append(@,
            [pattern |-> <<"<", "d", "c", "c", ">">>,
             name    |-> <<"C", "o", "m", "p", "i", "l", "e">>])]

TreeConfigs == {DefaultConfig, WildcardConfig, NestedTargetsConfig}

\* parse_log has returned the forest of a log.
InitTree ==
    /\ pc = "parsed_log"
    /\ cfg \in TreeConfigs
    /\ \E lines \in TreeLogs :
           LET p == parse_log(lines, cfg)
           IN  /\ log_lines = lines
               /\ line_number = Len(lines)
               /\ stack = p.stack
               /\ all_steps = p.nodes
               /\ root_steps = p.root_steps
    /\ IdleNormalize
    /\ IdleForests
    /\ IdleLists
    /\ IdleSummaries
    /\ IdleMain
    /\ IdleIndent

\* old_target_steps = extract_target_steps(old_steps, config)
SelectTargets ==
    /\ pc = "parsed_log"
    /\ old_target_steps' =
           [nodes |-> all_steps,
            steps |-> extract_target_steps(all_steps, root_steps, cfg)]
    /\ pc' = "parsed"
    /\ UNCHANGED <<indentVars, cfg, mainVars, normalizeVars, parseVars, new_target_steps,
                   listVars, summaryVars>>

NextTree == SelectTargets \/ ExtractOld

SpecTree == InitTree /\ [][NextTree]_vars

(***************************************************************************)
(* The comparator on its own: compare_logs applied to two flat lists       *)
(***************************************************************************)

\* The two lists of SpecCompare hold at most MaxRecords records together.
MaxRecords == 3

TextX  == <<"X">>
TextY  == <<"Y">>

CompareRecords ==
    {MakeWarning(t, t, k, s, <<>>, 0) :
        t \in {TextX, TextY}, k \in {"Warning", "Hint"}, s \in {StageA, StageB}}

InitCompare ==
    /\ pc = "extracted"
    /\ old_warnings \in BoundedSeq(CompareRecords, MaxRecords)
    /\ new_warnings \in BoundedSeq(CompareRecords, MaxRecords - Len(old_warnings))
    /\ cfg = DefaultConfig
    /\ IdleSummaries
    /\ IdleMain
    /\ IdleIndent
    /\ IdleNormalize
    /\ IdleParse
    /\ IdleForests

\* summary = compare_logs(old_warnings, new_warnings)
Compare ==
    /\ pc = "extracted"
    /\ summary' = compare_logs(old_warnings, new_warnings)
    /\ pc' = "compared"
    /\ UNCHANGED <<indentVars, cfg, mainVars, normalizeVars, parseVars, forestVars, listVars,
                   swapped, reordered, relabelled>>

\* The same comparison with the two runs exchanged.
CompareSwapped ==
    /\ pc = "compared"
    /\ swapped' = compare_logs(new_warnings, old_warnings)
    /\ pc' = "swapped"
    /\ UNCHANGED <<indentVars, cfg, mainVars, normalizeVars, parseVars, forestVars, listVars,
                   summary, reordered, relabelled>>

\* The orders of warnings that move whole stages against each other and
\* keep the order of the records inside each stage.
StageReorderings(warnings) ==
    {r \in [DOMAIN warnings -> Range(warnings)] :
        \A s \in {StageA, StageB} :
            SelectSeq(r, LAMBDA w : w.stage = s)
                = SelectSeq(warnings, LAMBDA w : w.stage = s)}

\* The same comparison on stage-reordered copies of the two lists.
CompareReordered ==
    /\ pc = "compared"
    /\ \E a \in StageReorderings(old_warnings), b \in StageReorderings(new_warnings) :
           reordered' = compare_logs(a, b)
    /\ pc' = "reordered"
    /\ UNCHANGED <<indentVars, cfg, mainVars, normalizeVars, parseVars, forestVars, listVars,
                   summary, swapped, relabelled>>

\* Other values of the fields of a record that are no part of its key.
OtherMetadata ==
    {[original |-> <<"o", "l", "d">>, file_path |-> <<"a", ".", "p", "a", "s">>,
      line_number |-> 7],
     [original |-> <<"n", "e", "w">>, file_path |-> <<>>, line_number |-> 0]}

\* The copies of warnings that differ from it in original, file_path and
\* line_number only.
Relabellings(warnings) ==
    {[i \in DOMAIN warnings |->
        [warnings[i] EXCEPT !.original = m[i].original,
                            !.file_path = m[i].file_path,
                            !.line_number = m[i].line_number]] :
        m \in [DOMAIN warnings -> OtherMetadata]}

\* The same comparison on copies of the two lists with other original
\* lines, file paths and line numbers.
CompareRelabelled ==
    /\ pc = "compared"
    /\ \E a \in Relabellings(old_warnings), b \in Relabellings(new_warnings) :
           relabelled' = compare_logs(a, b)
    /\ pc' = "relabelled"
    /\ UNCHANGED <<indentVars, cfg, mainVars, normalizeVars, parseVars, forestVars, listVars,
                   summary, swapped, reordered>>

NextCompare == Compare \/ CompareSwapped \/ CompareReordered \/ CompareRelabelled

SpecCompare == InitCompare /\ [][NextCompare]_vars

\* Steps 4, 5 and 6 of run_comparison.
NextExtract == ExtractOld \/ ExtractNew \/ Compare

SpecExtract == InitExtract /\ [][NextExtract]_vars

(***************************************************************************)
(* main.py: main, validate_inputs, run_comparison and handle_error         *)
(***************************************************************************)

EXIT_SUCCESS == 0
EXIT_FILE_NOT_FOUND == 1
EXIT_CONFIG_ERROR == 2
EXIT_PARSE_ERROR == 3
EXIT_ENCODING_ERROR == 4
EXIT_UNEXPECTED_ERROR == 255

\* The classes of the exceptions of the model with their base classes.
ExceptionBases ==
    [FileNotFoundError     |-> {"FileNotFoundError", "OSError", "Exception"},
     PermissionError       |-> {"PermissionError", "OSError", "Exception"},
     ConfigValidationError |-> {"ConfigValidationError", "Exception"},
     ParseError            |-> {"ParseError", "Exception"},
     EncodingError         |-> {"EncodingError", "Exception"},
     KeyError              |-> {"KeyError", "LookupError", "Exception"}]

Exceptions == DOMAIN ExceptionBases

\* isinstance(error, class)
IsInstance(error, class) == class \in ExceptionBases[error]

\* Variant of handle_error that returns EXIT_PARSE_ERROR for an
\* EncodingError.
handle_error_encoding_as_parse(error) ==
    IF IsInstance(error, "FileNotFoundError") THEN EXIT_FILE_NOT_FOUND
    ELSE IF IsInstance(error, "ConfigValidationError") THEN EXIT_CONFIG_ERROR
    ELSE IF IsInstance(error, "ParseError") THEN EXIT_PARSE_ERROR
    ELSE IF IsInstance(error, "EncodingError") THEN EXIT_PARSE_ERROR
    ELSE EXIT_UNEXPECTED_ERROR

\* handle_error: the exit code of an exception.
handle_error(error) ==
    IF IsInstance(error, "FileNotFoundError") THEN EXIT_FILE_NOT_FOUND
    ELSE IF IsInstance(error, "ConfigValidationError") THEN EXIT_CONFIG_ERROR
    ELSE IF IsInstance(error, "ParseError") THEN EXIT_PARSE_ERROR
    ELSE IF IsInstance(error, "EncodingError") THEN EXIT_ENCODING_ERROR
    ELSE EXIT_UNEXPECTED_ERROR

(***************************************************************************)
(* A run of main: the command line, the files, then the pipeline           *)
(***************************************************************************)

\* Config objects that load_config makes from a file: a target without
\* pattern, no stage markers, a warning pattern of a kind that is neither
\* Warning nor Hint, and the comparison that ignores case.
EmptyPatternConfig ==
    [DefaultConfig EXCEPT !.target_steps =
        <<[pattern |-> <<>>, name |-> <<"B", "u", "i", "l", "d">>]>>]
NoMarkersConfig == [DefaultConfig EXCEPT !.stage_markers = <<>>]
UnknownKindConfig ==
    [DefaultConfig EXCEPT !.warning_patterns =
        <<[pattern |-> S_Warning \o <<":">>, type |-> "Error"]>>]
IgnoreCaseConfig == [DefaultConfig EXCEPT !.comparison = [ignore_case |-> TRUE]]

LoadedConfigs ==
    {EmptyPatternConfig, NoMarkersConfig, UnknownKindConfig, IgnoreCaseConfig}

\* The states of a log file: there, not there, removed after
\* validate_inputs has seen it, or there and not to be opened.
LogFiles == {"ok", "missing", "vanished", "denied"}

\* --config: not given, a path to no file, a file that is no YAML, or a
\* file that loads into one of LoadedConfigs.
ConfigFiles ==
    {[path |-> "none"], [path |-> "missing"], [path |-> "bad_yaml"]}
    \cup {[path |-> "file", loads |-> config] : config \in LoadedConfigs}

\* The lines of the two logs of SpecMain.
OldLogLines == <<LineOpenTarget, LineOpenStage(StageA), LineWarningFoo>>
NewLogLines == <<LineOpenTarget, LineOpenStage(StageA), LineHintFoo>>

\* The value of cfg before load_config has returned.
NoConfig == [loaded |-> FALSE]

\* main is called, with a command line and files in some state.
InitMain ==
    /\ pc = "main"
    /\ env \in {[given |-> TRUE, args_ok |-> a, no_color |-> c,
                 old_log |-> o, new_log |-> n, config |-> f] :
                    a \in BOOLEAN, c \in BOOLEAN,
                    o \in LogFiles, n \in LogFiles, f \in ConfigFiles}
    /\ cfg = NoConfig
    /\ calls = <<>>
    /\ raised = "none"
    /\ exit_code = <<>>
    /\ IdleNormalize
    /\ IdleParse
    /\ IdleForests
    /\ IdleLists
    /\ IdleSummaries
    /\ IdleIndent

\* handle_error is called on its own with an exception.
InitHandleError ==
    /\ pc = "except"
    /\ env = NoEnv
    /\ cfg = NoConfig
    /\ calls = <<>>
    /\ raised \in Exceptions
    /\ exit_code = <<>>
    /\ IdleNormalize
    /\ IdleParse
    /\ IdleForests
    /\ IdleLists
    /\ IdleSummaries
    /\ IdleIndent

\* A call that raises: control goes to the except clause of main.
Raise(function, error) ==
    /\ calls' = Append(calls, function)
    /\ raised' = error
    /\ pc' = "except"

\* args = parse_arguments(): argparse leaves the process with SystemExit,
\* which is no Exception, when it does not accept the command line.
ParseArguments ==
    /\ pc = "main"
    /\ calls' = Append(calls, "parse_arguments")
    /\ IF env.args_ok
       THEN pc' = "validate_inputs" /\ raised' = raised
       ELSE pc' = "exited" /\ raised' = "SystemExit"
    /\ UNCHANGED <<indentVars, cfg, env, exit_code, normalizeVars, parseVars, forestVars,
                   listVars, summaryVars>>

\* validate_inputs(args.old_log, args.new_log, args.config)
ValidateInputs ==
    /\ pc = "validate_inputs"
    /\ IF \/ env.old_log = "missing"
          \/ env.new_log = "missing"
          \/ env.config.path = "missing"
       THEN Raise("validate_inputs", "FileNotFoundError")
       ELSE /\ calls' = Append(calls, "validate_inputs")
            /\ pc' = "load_config"
            /\ raised' = raised
    /\ UNCHANGED <<indentVars, cfg, env, exit_code, normalizeVars, parseVars, forestVars,
                   listVars, summaryVars>>

\* config = load_config(config_path), then the no_color parameter.
LoadConfig ==
    /\ pc = "load_config"
    /\ IF env.config.path = "bad_yaml"
       THEN Raise("load_config", "ConfigValidationError") /\ cfg' = cfg
       ELSE /\ calls' = Append(calls, "load_config")
            /\ pc' = "validate_config"
            /\ raised' = raised
            /\ LET config == IF env.config.path = "none" THEN DefaultConfig
                             ELSE env.config.loads
               IN  cfg' = IF env.no_color
                          THEN [config EXCEPT !.output.use_colors = FALSE]
                          ELSE config
    /\ UNCHANGED <<indentVars, env, exit_code, normalizeVars, parseVars, forestVars,
                   listVars, summaryVars>>

\* validate_config(config)
ValidateConfig ==
    /\ pc = "validate_config"
    /\ IF validate_config(cfg) # "none"
       THEN Raise("validate_config", validate_config(cfg))
       ELSE /\ calls' = Append(calls, "validate_config")
            /\ pc' = "parse_old"
            /\ raised' = raised
    /\ UNCHANGED <<indentVars, cfg, env, exit_code, normalizeVars, parseVars, forestVars,
                   listVars, summaryVars>>

\* What _read_log_file raises on a log file in the given state.
read_log_file(file) ==
    IF file = "vanished" THEN "FileNotFoundError"
    ELSE IF file = "denied" THEN "PermissionError"
    ELSE "none"

\* old_steps = parse_log(old_log, config), then extract_target_steps
ParseOld ==
    /\ pc = "parse_old"
    /\ IF read_log_file(env.old_log) # "none"
       THEN /\ Raise("parse_log", read_log_file(env.old_log))
            /\ old_target_steps' = old_target_steps
       ELSE /\ calls' = Append(calls, "parse_log")
            /\ pc' = "parse_new"
            /\ raised' = raised
            /\ old_target_steps' = TargetForest(OldLogLines, cfg)
    /\ UNCHANGED <<indentVars, cfg, env, exit_code, normalizeVars, parseVars,
                   new_target_steps, listVars, summaryVars>>

\* new_steps = parse_log(new_log, config), then extract_target_steps
ParseNew ==
    /\ pc = "parse_new"
    /\ IF read_log_file(env.new_log) # "none"
       THEN /\ Raise("parse_log", read_log_file(env.new_log))
            /\ new_target_steps' = new_target_steps
       ELSE /\ calls' = Append(calls, "parse_log")
            /\ pc' = "parsed"
            /\ raised' = raised
            /\ new_target_steps' = TargetForest(NewLogLines, cfg)
    /\ UNCHANGED <<indentVars, cfg, env, exit_code, normalizeVars, parseVars,
                   old_target_steps, listVars, summaryVars>>

\* generate_report(summary, old_log, new_log, config); a KeyError of
\* compare_logs leaves run_comparison before it.
GenerateReport ==
    /\ pc = "compared"
    /\ env # NoEnv
    /\ IF summary.raised # "none"
       THEN /\ raised' = summary.raised
            /\ pc' = "except"
            /\ calls' = calls
       ELSE /\ calls' = Append(calls, "generate_report")
            /\ pc' = "reported"
            /\ raised' = raised
    /\ UNCHANGED <<indentVars, cfg, env, exit_code, normalizeVars, parseVars, forestVars,
                   listVars, summaryVars>>

\* return EXIT_SUCCESS
ReturnSuccess ==
    /\ pc = "reported"
    /\ exit_code' = <<EXIT_SUCCESS>>
    /\ pc' = "returned"
    /\ UNCHANGED <<indentVars, cfg, env, calls, raised, normalizeVars, parseVars, forestVars,
                   listVars, summaryVars>>

\* except Exception as error: return handle_error(error)
HandleError ==
    /\ pc = "except"
    /\ exit_code' = <<handle_error(raised)>>
    /\ pc' = "returned"
    /\ UNCHANGED <<indentVars, cfg, env, calls, raised, normalizeVars, parseVars, forestVars,
                   listVars, summaryVars>>

NextMain ==
    \/ ParseArguments \/ ValidateInputs \/ LoadConfig \/ ValidateConfig
    \/ ParseOld \/ ParseNew \/ ExtractOld \/ ExtractNew \/ Compare
    \/ GenerateReport \/ ReturnSuccess \/ HandleError

SpecMain == (InitMain \/ InitHandleError) /\ [][NextMain]_vars

(***************************************************************************)
(* parse_log on lines with a bracketed token before the stage marker       *)
(***************************************************************************)

MaxPrefixedLines == 1

\* What stands before the text of a line: nothing, a timestamp with a flag
\* and a colon, a timestamp alone, and a bracketed token that is no
\* timestamp.
Timestamp == <<"[", "1", "4", ":", "1", "3", ":", "2", "7", "]">>
StepToken == <<"[", "S", "t", "e", "p", " ", "4", "/", "2", "1", "]">>
FlaggedTimestamps == {Timestamp \o <<" ", ":">>, Timestamp \o <<"W", ":">>}
LinePrefixes == {<<>>, Timestamp, StepToken} \cup FlaggedTimestamps

\* The texts of a line: two that start with a stage marker, one of them
\* with an asterisk, and two that hold no marker.
TextDprBuild ==
    <<"<", "X", ".", "d", "p", "r", ">", ":", " ", "<", "b", "u", "i", "l", "d", ">">>
TextBuild == <<"<", "b", "u", "i", "l", "d", ">", ":", " ", "t", "e", "x", "t">>
TextBuildTimes ==
    <<"<", "b", "u", "i", "l", "d", ">", ":", " ", "2", " ", "*", " ", "3">>
TextPlain == <<"t", "e", "x", "t">>
TextTimes == <<"2", " ", "*", " ", "3">>
LineTexts == {TextDprBuild, TextBuild, TextBuildTimes, TextPlain, TextTimes}

\* A line of the log: prefix, a space or a tab, text, end of line.
PrefixedLine(prefix, gap, text) == prefix \o <<gap>> \o text \o <<"\n">>
PrefixedLines ==
    {PrefixedLine(prefix, gap, text) :
        prefix \in LinePrefixes, gap \in {" ", "\t"}, text \in LineTexts}

\* parse_log is called with the default targets or with the wildcard target.
InitPrefixed ==
    /\ pc = "parsing"
    /\ cfg \in {DefaultConfig, WildcardConfig}
    /\ IdleParse
    /\ IdleNormalize
    /\ IdleForests
    /\ IdleLists
    /\ IdleSummaries
    /\ IdleMain
    /\ IdleIndent

\* One iteration of the loop of parse_log on a line of PrefixedLines.
ReadPrefixedLine ==
    /\ line_number < MaxPrefixedLines
    /\ \E line \in PrefixedLines : ReadLine(line)

NextPrefixed == ReadPrefixedLine \/ EndOfInput

SpecPrefixed == InitPrefixed /\ [][NextPrefixed]_vars

(***************************************************************************)
(* calculate_indentation on the lines of its documentation                 *)
(***************************************************************************)

MaxIndentChars == 5

\* The texts of the examples of the docstring after their indentation, and
\* the empty text.
TextNoIndent == <<"n", "o", " ", "i", "n", "d", "e", "n", "t">>
TextTwoSpaces == <<"t", "w", "o", " ", "s", "p", "a", "c", "e", "s">>
TextOneTab == <<"o", "n", "e", " ", "t", "a", "b">>
TextMixed == <<"m", "i", "x", "e", "d">>
IndentTexts == {<<>>, TextNoIndent, TextTwoSpaces, TextOneTab, TextMixed}

\* The indentations: up to MaxIndentChars spaces and tabs in any order.
Indentations ==
    UNION {[1..n -> {" ", "\t"}] : n \in 0..MaxIndentChars}

\* calculate_indentation is about to be called on a line.
InitIndent ==
    /\ pc = "indent"
    /\ line_text \in {i \o t : i \in Indentations, t \in IndentTexts}
    /\ indentation = <<>>
    /\ cfg = DefaultConfig
    /\ IdleNormalize
    /\ IdleParse
    /\ IdleForests
    /\ IdleLists
    /\ IdleSummaries
    /\ IdleMain

\* indent = calculate_indentation(line)
CalculateIndentation ==
    /\ pc = "indent"
    /\ indentation' = <<calculate_indentation(line_text)>>
    /\ pc' = "indented"
    /\ UNCHANGED <<line_text, cfg, normalizeVars, parseVars, forestVars, listVars,
                   summaryVars, mainVars>>

NextIndent == CalculateIndentation

SpecIndent == InitIndent /\ [][NextIndent]_vars

(***************************************************************************)
(* Properties of the comparator                                            *)
(***************************************************************************)

\* The stage names of a flat diagnostic list.
StageNamesIn(warnings) == {warnings[i].stage : i \in DOMAIN warnings}

\* The records of one stage, in list order.
RecordsOfStage(warnings, name) == SelectSeq(warnings, LAMBDA w : w.stage = name)

\* The distinct normalized texts of one stage.
KeysOfStage(warnings, name) == texts_of(RecordsOfStage(warnings, name))

\* The by_stage entries of a summary that carry a stage name.
ResultsFor(s, name) == {i \in DOMAIN s.by_stage : s.by_stage[i].stage_name = name}

Compared == pc \in {"compared", "swapped", "reordered", "relabelled"}

\* C1: for any two lists A and B, compare_logs(A, B) and compare_logs(B, A)
\* list the same stage names in by_stage, and under every stage the added
\* list of the one is the removed list of the other (same records, same
\* order).
C1_DiffSymmetry ==
    pc = "swapped" =>
        /\ Len(summary.by_stage) = Len(swapped.by_stage)
        /\ \A i \in DOMAIN summary.by_stage :
              /\ summary.by_stage[i].stage_name = swapped.by_stage[i].stage_name
              /\ summary.by_stage[i].added = swapped.by_stage[i].removed
              /\ summary.by_stage[i].removed = swapped.by_stage[i].added

\* A swapped comparison where one stage has a repeated added key and
\* another stage has a removed record.
C1_Witness ==
    /\ pc = "swapped"
    /\ \E i \in DOMAIN summary.by_stage :
          /\ Len(summary.by_stage[i].added) = 2
          /\ summary.by_stage[i].added[1].text = summary.by_stage[i].added[2].text
    /\ \E i \in DOMAIN summary.by_stage : Len(summary.by_stage[i].removed) > 0

\* C2: for every stage present in both runs, unchanged_count plus the number
\* of distinct removed keys is the number of distinct old keys of the stage,
\* and unchanged_count plus the number of distinct added keys is the number
\* of distinct new keys.
C2_Conservation ==
    Compared =>
        \A name \in StageNamesIn(old_warnings) \cap StageNamesIn(new_warnings) :
            /\ Cardinality(ResultsFor(summary, name)) = 1
            /\ \A i \in ResultsFor(summary, name) :
                  LET r == summary.by_stage[i]
                  IN  /\ r.unchanged_count + Cardinality(texts_of(r.removed))
                            = Cardinality(KeysOfStage(old_warnings, name))
                      /\ r.unchanged_count + Cardinality(texts_of(r.added))
                            = Cardinality(KeysOfStage(new_warnings, name))

\* A stage of both runs with an unchanged key and a removed key.
C2_Witness ==
    /\ pc = "compared"
    /\ \E i \in DOMAIN summary.by_stage :
          /\ summary.by_stage[i].stage_name \in StageNamesIn(old_warnings)
          /\ summary.by_stage[i].stage_name \in StageNamesIn(new_warnings)
          /\ summary.by_stage[i].unchanged_count = 1
          /\ Len(summary.by_stage[i].removed) = 1

\* The example of C7: old run X, new run X then Y, all in one stage.
C7_Example ==
    /\ Len(old_warnings) = 1 /\ Len(new_warnings) = 2
    /\ old_warnings[1].text = TextX /\ new_warnings[1].text = TextX
    /\ new_warnings[2].text = TextY
    /\ StageNamesIn(old_warnings) \cup StageNamesIn(new_warnings) = {StageA}

\* C7: per stage, added is the new-run records of the stage whose text does
\* not occur among the old run's texts of that stage, in their order with
\* duplicates kept, and removed is the mirror image; old {X} and new {X, Y}
\* in one stage give added = [Y], removed = [], unchanged_count = 1,
\* total_added = 1, total_unchanged = 1.
C7_AddedRemovedLists ==
    Compared =>
        /\ \A i \in DOMAIN summary.by_stage :
              LET r == summary.by_stage[i]
                  n == r.stage_name
              IN  /\ r.added = SelectSeq(new_warnings, LAMBDA w :
                          w.stage = n /\ w.text \notin KeysOfStage(old_warnings, n))
                  /\ r.removed = SelectSeq(old_warnings, LAMBDA w :
                          w.stage = n /\ w.text \notin KeysOfStage(new_warnings, n))
        /\ C7_Example =>
              /\ Len(summary.by_stage) = 1
              /\ summary.by_stage[1].added = <<new_warnings[2]>>
              /\ summary.by_stage[1].removed = <<>>
              /\ summary.by_stage[1].unchanged_count = 1
              /\ summary.total_added = 1
              /\ summary.total_unchanged = 1

\* The example has been compared.
C7_Witness == pc = "compared" /\ C7_Example

\* C8: a stage that occurs only in the old run has all of its old records,
\* with multiplicity, in its removed list, an empty added list and
\* unchanged_count 0, and no added list holds a record of it; a stage that
\* occurs only in the new run is the mirror image.
C8_OneSidedStages ==
    Compared =>
        /\ \A name \in StageNamesIn(old_warnings) \ StageNamesIn(new_warnings) :
              /\ Cardinality(ResultsFor(summary, name)) = 1
              /\ \A i \in ResultsFor(summary, name) :
                    /\ summary.by_stage[i].removed = RecordsOfStage(old_warnings, name)
                    /\ summary.by_stage[i].added = <<>>
                    /\ summary.by_stage[i].unchanged_count = 0
              /\ \A i \in DOMAIN summary.by_stage :
                    \A k \in DOMAIN summary.by_stage[i].added :
                        summary.by_stage[i].added[k].stage # name
        /\ \A name \in StageNamesIn(new_warnings) \ StageNamesIn(old_warnings) :
              /\ Cardinality(ResultsFor(summary, name)) = 1
              /\ \A i \in ResultsFor(summary, name) :
                    /\ summary.by_stage[i].added = RecordsOfStage(new_warnings, name)
                    /\ summary.by_stage[i].removed = <<>>
                    /\ summary.by_stage[i].unchanged_count = 0
              /\ \A i \in DOMAIN summary.by_stage :
                    \A k \in DOMAIN summary.by_stage[i].removed :
                        summary.by_stage[i].removed[k].stage # name

\* A stage only in the old run with two diagnostics, beside a stage of the
\* new run.
C8_Witness ==
    /\ pc = "compared"
    /\ StageNamesIn(new_warnings) = {StageA}
    /\ Len(RecordsOfStage(old_warnings, StageB)) = 2
    /\ \E i \in DOMAIN summary.by_stage :
          /\ summary.by_stage[i].stage_name = StageB
          /\ Len(summary.by_stage[i].removed) = 2

\* C10: by_stage covers stage names of the union of both runs in strictly
\* ascending lexicographic order, whatever the order of the stages in the
\* input lists, and reordering the stages of an input list without changing
\* the order of the records inside each stage leaves the Summary unchanged.
C10_SortedStageOrder ==
    /\ Compared =>
          /\ \A i, j \in DOMAIN summary.by_stage :
                i < j => StrLess(summary.by_stage[i].stage_name,
                                 summary.by_stage[j].stage_name)
          /\ {summary.by_stage[i].stage_name : i \in DOMAIN summary.by_stage}
                = StageNamesIn(old_warnings) \cup StageNamesIn(new_warnings)
    /\ pc = "reordered" => reordered = summary

\* A reordered comparison of two stages where the old run lists the later
\* stage name first.
C10_Witness ==
    /\ pc = "reordered"
    /\ Len(summary.by_stage) = 2
    /\ Len(old_warnings) >= 2
    /\ old_warnings[1].stage = StageB
    /\ old_warnings[2].stage = StageA

\* The sum of a sequence of numbers.
RECURSIVE SumOf(_)
SumOf(numbers) == IF numbers = <<>> THEN 0 ELSE Head(numbers) + SumOf(Tail(numbers))

\* The keys of a stage that both runs have.
UnchangedKeys(name) ==
    KeysOfStage(old_warnings, name) \cap KeysOfStage(new_warnings, name)

\* The old run's records of a stage whose key both runs have.
OldUnchanged(name) ==
    SelectSeq(old_warnings,
              LAMBDA w : w.stage = name /\ w.text \in UnchangedKeys(name))

\* C11: per stage, unchanged_count is the number of distinct texts that both
\* runs have, and unchanged_warnings, unchanged_hints and
\* by_type[kind]["unchanged"] count every old-run record with such a text;
\* so unchanged_warnings + unchanged_hints >= unchanged_count, greater
\* exactly when the old run repeats an unchanged text, and the numbers are
\* functions of the old records and of the set of new texts, whatever the
\* new run repeats.
C11_UnchangedTallies ==
    Compared =>
        /\ \A i \in DOMAIN summary.by_stage :
              LET r == summary.by_stage[i]
                  old_unchanged == OldUnchanged(r.stage_name)
                  repeated == \E a, b \in DOMAIN old_unchanged :
                                 a < b /\ old_unchanged[a].text = old_unchanged[b].text
              IN  /\ r.unchanged_count = Cardinality(UnchangedKeys(r.stage_name))
                  /\ r.unchanged_warnings =
                        Len(SelectSeq(old_unchanged, LAMBDA w : w.type = "Warning"))
                  /\ r.unchanged_hints =
                        Len(SelectSeq(old_unchanged, LAMBDA w : w.type = "Hint"))
                  /\ r.unchanged_warnings + r.unchanged_hints >= r.unchanged_count
                  /\ (r.unchanged_warnings + r.unchanged_hints > r.unchanged_count)
                        <=> repeated
        /\ \A kind \in {"Warning", "Hint"} :
              summary.by_type[kind].unchanged =
                  Len(SelectSeq(old_warnings, LAMBDA w :
                        w.type = kind /\ w.text \in UnchangedKeys(w.stage)))

\* The old run repeats a text that the new run has once in the same stage:
\* one unchanged key, two unchanged records.
C11_Witness ==
    /\ pc = "compared"
    /\ Len(old_warnings) = 2
    /\ Len(new_warnings) = 1
    /\ Len(summary.by_stage) = 1
    /\ summary.by_stage[1].unchanged_count = 1
    /\ summary.by_stage[1].unchanged_warnings + summary.by_stage[1].unchanged_hints = 2

\* C12: total_added and total_removed are the summed lengths of the added
\* and removed lists of by_stage, duplicates included, total_unchanged is
\* the sum of the unchanged_count of the stages, and the "added" and
\* "removed" counts of by_type summed over the kinds are total_added and
\* total_removed.
C12_Totals ==
    Compared =>
        /\ summary.total_added =
              SumOf([i \in DOMAIN summary.by_stage |-> Len(summary.by_stage[i].added)])
        /\ summary.total_removed =
              SumOf([i \in DOMAIN summary.by_stage |-> Len(summary.by_stage[i].removed)])
        /\ summary.total_unchanged =
              SumOf([i \in DOMAIN summary.by_stage |-> summary.by_stage[i].unchanged_count])
        /\ summary.by_type["Warning"].added + summary.by_type["Hint"].added
              = summary.total_added
        /\ summary.by_type["Warning"].removed + summary.by_type["Hint"].removed
              = summary.total_removed

\* A comparison with a repeated added text and a removed record.
C12_Witness ==
    /\ pc = "compared"
    /\ summary.total_added = 2
    /\ summary.total_removed = 1
    /\ \E i \in DOMAIN summary.by_stage :
          /\ Len(summary.by_stage[i].added) = 2
          /\ summary.by_stage[i].added[1].text = summary.by_stage[i].added[2].text

\* The texts of a list of records, in order.
KeySequence(warnings) == [i \in DOMAIN warnings |-> warnings[i].text]

\* C13: the classification depends on the records' stage and text only: a
\* comparison of two lists that differ from the given ones in original,
\* file_path and line_number only has the same stages, per stage the same
\* sequences of added and removed texts and the same unchanged_count, and
\* the same totals.
C13_KeyOnly ==
    pc = "relabelled" =>
        /\ Len(relabelled.by_stage) = Len(summary.by_stage)
        /\ \A i \in DOMAIN summary.by_stage :
              /\ relabelled.by_stage[i].stage_name = summary.by_stage[i].stage_name
              /\ KeySequence(relabelled.by_stage[i].added)
                    = KeySequence(summary.by_stage[i].added)
              /\ KeySequence(relabelled.by_stage[i].removed)
                    = KeySequence(summary.by_stage[i].removed)
              /\ relabelled.by_stage[i].unchanged_count
                    = summary.by_stage[i].unchanged_count
        /\ relabelled.total_added = summary.total_added
        /\ relabelled.total_removed = summary.total_removed
        /\ relabelled.total_unchanged = summary.total_unchanged
        /\ relabelled.by_type = summary.by_type

\* A relabelled comparison with an added and an unchanged text, whose added
\* record differs from the given one in its original line.
C13_Witness ==
    /\ pc = "relabelled"
    /\ summary.total_added = 1
    /\ summary.total_unchanged = 1
    /\ \E i \in DOMAIN summary.by_stage :
          /\ Len(summary.by_stage[i].added) = 1
          /\ Len(relabelled.by_stage[i].added) = 1
          /\ relabelled.by_stage[i].added[1].original
                # summary.by_stage[i].added[1].original

(***************************************************************************)
(* Properties of the normalizer and the extractor                          *)
(***************************************************************************)

\* C3: normalize_warning is idempotent: normalizing an already normalized
\* string gives the same string, for every line and every configuration.
C3_NormalizeIdempotent == pc = "renormalized" => renormalized = normalized

\* The stage inside the old run's target step holds, after the line that
\* opens it, exactly the given content lines.
OldStageHolds(lines) ==
    /\ Len(old_target_steps.nodes) = 2
    /\ old_target_steps.steps = <<1>>
    /\ old_target_steps.nodes[1].children = <<2>>
    /\ Tail(old_target_steps.nodes[2].lines) = lines

\* The same of the new run.
NewStageHolds(lines) ==
    /\ Len(new_target_steps.nodes) = 2
    /\ new_target_steps.steps = <<1>>
    /\ new_target_steps.nodes[1].children = <<2>>
    /\ Tail(new_target_steps.nodes[2].lines) = lines

OldExtracted == pc \in {"old_extracted", "extracted", "compared"}

C9_Case ==
    /\ cfg.comparison.ignore_case
    /\ OldStageHolds(<<LineWarningFoo>>)
    /\ NewStageHolds(<<LineLowerFoo>>)
    /\ old_target_steps.nodes[2].name = new_target_steps.nodes[2].name

\* C9: with comparison.ignore_case enabled, "Warning: Foo" in a stage of the
\* old log and "warning: foo" in the same stage of the new log are both
\* extracted, get the same lower-cased key and are classified unchanged:
\* nothing is added and nothing is removed.
C9_IgnoreCaseUnchanged ==
    (pc = "compared" /\ C9_Case) =>
        /\ Len(old_warnings) = 1
        /\ Len(new_warnings) = 1
        /\ old_warnings[1].text = new_warnings[1].text
        /\ summary.total_added = 0
        /\ summary.total_removed = 0
        /\ summary.total_unchanged = 1

(***************************************************************************)
(* Properties of the parser                                                *)
(***************************************************************************)

\* The depths of the open stages, bottom of the stack first.
OpenDepths == [i \in DOMAIN stack |-> stack[i][1]]

\* The BuildStep objects that are open.
OpenSteps == {stack[i][2] : i \in DOMAIN stack}

\* A step of parse_log in which the line read opens a stage.
StageOpened == Len(all_steps') = Len(all_steps) + 1

\* What C4 says of a step in which line n opens a stage at depth d.
C4_Open ==
    LET new_step == Len(all_steps')
        n        == line_number'
        d        == all_steps'[new_step].level
        kept     == SelectSeq(stack, LAMBDA e : e[1] < d)
    IN  /\ all_steps'[new_step].start_line = n
        /\ \A i \in DOMAIN stack :
               IF stack[i][1] >= d
               THEN /\ \A j \in DOMAIN stack' : stack'[j][2] # stack[i][2]
                    /\ all_steps'[stack[i][2]].end_line = n - 1
               ELSE /\ i \in DOMAIN stack'
                    /\ stack'[i] = stack[i]
        /\ stack' = Append(kept, <<d, new_step>>)
        /\ IF kept = <<>>
           THEN /\ root_steps' = Append(root_steps, new_step)
                /\ \A k \in DOMAIN all_steps :
                       all_steps'[k].children = all_steps[k].children
           ELSE LET parent_step == kept[Len(kept)][2]
                IN  /\ all_steps'[parent_step].children =
                           Append(all_steps[parent_step].children, new_step)
                    /\ root_steps' = root_steps
                    /\ \A k \in DOMAIN all_steps \ {parent_step} :
                           all_steps'[k].children = all_steps[k].children

\* Four stages opened one after the other at depths 0, 4, 8 and 4, the
\* first of them at position i of all_steps.
OpensAt0484(i) ==
    /\ i + 3 \in DOMAIN all_steps
    /\ all_steps[i].level = 0
    /\ all_steps[i + 1].level = 4
    /\ all_steps[i + 2].level = 8
    /\ all_steps[i + 3].level = 4

\* The case of C4: the depth-8 stage is closed on the line before the second
\* depth-4 stage, which is a child of the depth-0 stage and of no other; as
\* long as no later line opens a stage, the depth-0 stage is open and the
\* depth-8 stage is not.
C4_Example ==
    \A i \in DOMAIN all_steps :
        OpensAt0484(i) =>
            /\ all_steps[i + 2].end_line = all_steps[i + 3].start_line - 1
            /\ all_steps[i + 1].end_line = all_steps[i + 3].start_line - 1
            /\ \E k \in DOMAIN all_steps[i].children :
                   all_steps[i].children[k] = i + 3
            /\ \A j \in DOMAIN all_steps \ {i} :
                   \A k \in DOMAIN all_steps[j].children :
                       all_steps[j].children[k] # i + 3
            /\ (pc = "parsing" /\ Len(all_steps) = i + 3) =>
                   /\ i \in OpenSteps
                   /\ i + 3 \in OpenSteps
                   /\ i + 2 \notin OpenSteps
                   /\ i + 1 \notin OpenSteps

\* C4: when line n of the log opens a stage at depth d, parse_log pops every
\* open stage of depth >= d and sets its end_line to n - 1, leaves the open
\* stages of depth < d open, makes the new stage the last child of the
\* stage left on top of the stack, or a new root when none is left, and
\* pushes it; after opens at depths 0, 4, 8 and 4 the depth-8 stage is
\* closed, the depth-0 stage is open and the new stage is its child.
C4_DepthClosing == []C4_Example /\ [][StageOpened => C4_Open]_vars

\* The log opens stages at depths 0, 4, 8 and 4 and the last open has just
\* been read: the first and the fourth stage are open, the fourth is the
\* second child of the first.
C4_Witness ==
    /\ pc = "parsing"
    /\ Len(all_steps) = 4
    /\ OpensAt0484(1)
    /\ stack = <<<<0, 1>>, <<4, 4>>>>
    /\ all_steps[1].children = <<2, 4>>
    /\ all_steps[3].end_line = all_steps[4].start_line - 1

\* The BuildStep objects that start on line n of the log.
StepsStartingAt(n) == {k \in DOMAIN all_steps : all_steps[k].start_line = n}

\* C5: a non-blank line of the log in which the pattern of a configured
\* target step occurs opens a stage that has the name of the first such
\* target in the order of the configuration, also when the line holds a
\* marker that would open a stage; the stage never has the marker's name.
C5_TargetBeforeMarker ==
    \A n \in DOMAIN log_lines :
        LET line == log_lines[n]
            occurring == {t \in DOMAIN cfg.target_steps :
                              Contains(line, cfg.target_steps[t].pattern)}
        IN  (Strip(line) # <<>> /\ occurring # {}) =>
                /\ Cardinality(StepsStartingAt(n)) = 1
                /\ \A k \in StepsStartingAt(n) :
                       /\ all_steps[k].name = cfg.target_steps[Least(occurring)].name
                       /\ all_steps[k].lines[1] = line
                       /\ marker_step_name(content_of(clean_line_of(line)), cfg) # None
                              => all_steps[k].name #
                                   marker_step_name(content_of(clean_line_of(line)), cfg)

\* A line with the patterns of both targets and the marker <build>: has
\* opened a stage named after the target the configuration lists first,
\* whose pattern comes second in the line.
C5_Witness ==
    /\ cfg = TwoTargetConfig
    /\ \E n \in DOMAIN log_lines :
           /\ log_lines[n] = LineTarget
           /\ marker_step_name(content_of(clean_line_of(LineTarget)), cfg)
                  = <<"<", "b", "u", "i", "l", "d", ">">>
           /\ \E k \in StepsStartingAt(n) : all_steps[k].name = NameOrion

(***************************************************************************)
(* Properties of target selection and extraction on a parsed log           *)
(***************************************************************************)

\* The pre-order walk of the stages below the given ones, as positions.
RECURSIVE PreOrder(_, _)
PreOrder(nodes, steps) ==
    IF steps = <<>> THEN <<>>
    ELSE <<steps[1]>> \o PreOrder(nodes, nodes[steps[1]].children)
                      \o PreOrder(nodes, Tail(steps))

\* The stages of the old run's target steps and their subtrees, in pre-order.
TargetStages == PreOrder(old_target_steps.nodes, old_target_steps.steps)

\* A line holds one of the configured warning patterns.
IsDiagnosticLine(line) ==
    \E p \in DOMAIN cfg.warning_patterns :
        Contains(line, cfg.warning_patterns[p].pattern)

\* The kind of the first pattern in configured order that the line holds.
FirstConfiguredKind(line) ==
    cfg.warning_patterns[
        Least({p \in DOMAIN cfg.warning_patterns :
                  Contains(line, cfg.warning_patterns[p].pattern)})].type

\* What is expected of the records of one stage: one for each of its own
\* lines that holds a pattern, in line order.
ExpectedOfStage(k) ==
    LET own == SelectSeq(old_target_steps.nodes[k].lines, IsDiagnosticLine)
    IN  [i \in DOMAIN own |->
            [stage    |-> old_target_steps.nodes[k].name,
             original |-> Strip(own[i]),
             type     |-> FirstConfiguredKind(own[i])]]

\* What is expected of old_warnings: the stages' records in pre-order.
ExpectedRecords ==
    Concat([i \in DOMAIN TargetStages |-> ExpectedOfStage(TargetStages[i])])

\* C14: extract_warnings makes at most one record per line of a stage: none
\* for a line that holds no configured warning pattern, and for a line that
\* holds several one record with the kind of the first pattern in
\* configured order that occurs in it, wherever in the line it occurs.
C14_OneRecordPerLine ==
    pc = "old_extracted" =>
        /\ Len(old_warnings) = Len(ExpectedRecords)
        /\ \A i \in DOMAIN old_warnings :
              /\ old_warnings[i].original = ExpectedRecords[i].original
              /\ old_warnings[i].type = ExpectedRecords[i].type
              /\ \A p \in DOMAIN cfg.warning_patterns :
                    Contains(old_warnings[i].original, cfg.warning_patterns[p].pattern)
                        => \E q \in 1..p :
                              /\ Contains(old_warnings[i].original,
                                          cfg.warning_patterns[q].pattern)
                              /\ cfg.warning_patterns[q].type = old_warnings[i].type

\* Under the defaults, where "Warning:" is configured before "Hint:", the
\* line with "Hint:" to the left of "Warning:" has given a record of kind
\* Warning, and the line that opens its stage has given none.
C14_Witness ==
    /\ pc = "old_extracted"
    /\ cfg = DefaultConfig
    /\ Len(old_target_steps.steps) = 1
    /\ old_target_steps.nodes[1].lines = <<LineOpenTarget, LineHintWarning>>
    /\ Len(old_warnings) = 1
    /\ old_warnings[1].original = Strip(LineHintWarning)
    /\ old_warnings[1].type = "Warning"

\* C15: extract_warnings returns the diagnostics of a stage's own lines, in
\* line order, before those of its children, and the children's in child
\* order; every record has as stage the name of the stage whose own lines
\* hold its line.
C15_PreOrder ==
    pc = "old_extracted" =>
        /\ [i \in DOMAIN old_warnings |->
               <<old_warnings[i].stage, old_warnings[i].original>>]
           = [i \in DOMAIN ExpectedRecords |->
               <<ExpectedRecords[i].stage, ExpectedRecords[i].original>>]
        /\ \A i \in DOMAIN old_warnings :
              \E k \in Range(TargetStages) :
                  /\ old_target_steps.nodes[k].name = old_warnings[i].stage
                  /\ \E n \in DOMAIN old_target_steps.nodes[k].lines :
                         Strip(old_target_steps.nodes[k].lines[n])
                             = old_warnings[i].original

\* The target stage has a diagnostic of its own and two children with one
\* diagnostic each, of different texts: the records come parent first, then
\* the children's in child order, each under its own stage's name.
C15_Witness ==
    /\ pc = "old_extracted"
    /\ cfg = DefaultConfig
    /\ old_target_steps.steps = <<1>>
    /\ old_target_steps.nodes[1].children = <<2, 3>>
    /\ Len(old_warnings) = 3
    /\ old_warnings[1].stage = old_target_steps.nodes[1].name
    /\ old_warnings[2].stage = StageA
    /\ old_warnings[2].original = Strip(LineWarningFoo)
    /\ old_warnings[3].original = Strip(LineHintWarning)

\* A stage matches a target: its name is a target's name or holds a
\* target's pattern.
MatchesTarget(k) ==
    \E t \in DOMAIN cfg.target_steps :
        \/ cfg.target_steps[t].name = all_steps[k].name
        \/ Contains(all_steps[k].name, cfg.target_steps[t].pattern)

\* The stages strictly below stage k.
DescendantsOf(k) == Range(PreOrder(all_steps, all_steps[k].children))

\* A stage that matches a target and lies below no stage that does.
OutermostTarget(k) ==
    /\ MatchesTarget(k)
    /\ \A a \in DOMAIN all_steps : k \in DescendantsOf(a) => ~MatchesTarget(a)

HasWildcard == \E t \in DOMAIN cfg.target_steps : cfg.target_steps[t].pattern = <<"*">>

TargetsSelected == pc \in {"parsed", "old_extracted"}

\* C18: with the wildcard pattern "*" among the targets extract_target_steps
\* returns the root stages of the forest, in order, with their subtrees;
\* otherwise it returns in pre-order the outermost stages that match a
\* target, each with its subtree, descending only into stages that do not
\* match.
C18_TargetSelection ==
    TargetsSelected =>
        /\ old_target_steps.nodes = all_steps
        /\ HasWildcard => old_target_steps.steps = root_steps
        /\ ~HasWildcard =>
              old_target_steps.steps =
                  SelectSeq(PreOrder(all_steps, root_steps), OutermostTarget)

\* Without wildcard: a target stage that holds a stage which holds a target
\* stage; only the outer one is returned.
C18_Witness ==
    /\ pc = "parsed"
    /\ cfg = NestedTargetsConfig
    /\ Len(all_steps) = 3
    /\ all_steps[1].children = <<2>>
    /\ all_steps[2].children = <<3>>
    /\ MatchesTarget(1) /\ ~MatchesTarget(2) /\ MatchesTarget(3)
    /\ old_target_steps.steps = <<1>>

(***************************************************************************)
(* Properties of main and run_comparison                                   *)
(***************************************************************************)

\* The positions of the calls of a function in calls.
CallsOf(function) == {i \in DOMAIN calls : calls[i] = function}

\* A configuration with which validate_config is to return: targets, stage
\* markers and warning patterns are there, no target and no warning pattern
\* has an empty field, and every warning pattern is of kind Warning or Hint.
ConfigIsValid(config) ==
    /\ Len(config.target_steps) > 0
    /\ \A i \in DOMAIN config.target_steps :
           Len(config.target_steps[i].pattern) > 0
           /\ Len(config.target_steps[i].name) > 0
    /\ Len(config.stage_markers) > 0
    /\ Len(config.warning_patterns) > 0
    /\ \A i \in DOMAIN config.warning_patterns :
           Len(config.warning_patterns[i].pattern) > 0
           /\ config.warning_patterns[i].type \in {"Warning", "Hint"}

\* C16: in a run of main, every call of parse_log comes after a call of
\* load_config and a later call of validate_config, and is made with a
\* configuration that is valid; when ConfigValidationError is raised, neither
\* log has been parsed, nothing of the logs has been computed and no report
\* is generated, up to the return of main.
C16_ValidateBeforeParse ==
    env # NoEnv =>
        /\ \A p \in CallsOf("parse_log") :
               \E l \in CallsOf("load_config"), v \in CallsOf("validate_config") :
                   l < v /\ v < p
        /\ CallsOf("parse_log") # {} => cfg # NoConfig /\ ConfigIsValid(cfg)
        /\ raised = "ConfigValidationError" =>
               /\ CallsOf("parse_log") = {}
               /\ CallsOf("generate_report") = {}
               /\ IdleForests
               /\ IdleLists
               /\ IdleSummaries

\* A run in which validate_config has raised on a loaded configuration and
\* main has returned.
C16_Witness ==
    /\ pc = "returned"
    /\ raised = "ConfigValidationError"
    /\ cfg # NoConfig
    /\ calls[Len(calls)] = "validate_config"

\* C17: the exit code of main is 1 for FileNotFoundError, 2 for
\* ConfigValidationError, 3 for ParseError, 4 for EncodingError and 255 for
\* every other exception; it is 0 only when nothing was raised and
\* parse_arguments, validate_inputs, load_config, validate_config, parse_log
\* for both logs and generate_report have all returned.
C17_ExitCodes ==
    pc = "returned" =>
        /\ raised = "FileNotFoundError" => exit_code = <<1>>
        /\ raised = "ConfigValidationError" => exit_code = <<2>>
        /\ raised = "ParseError" => exit_code = <<3>>
        /\ raised = "EncodingError" => exit_code = <<4>>
        /\ raised \in {"PermissionError", "KeyError"} => exit_code = <<255>>
        /\ exit_code = <<0>> =>
               /\ raised = "none"
               /\ calls = <<"parse_arguments", "validate_inputs", "load_config",
                            "validate_config", "parse_log", "parse_log",
                            "generate_report">>
               /\ summary # NoSummary
               /\ summary.raised = "none"

\* handle_error has returned the exit code of an EncodingError.
C17_Witness == pc = "returned" /\ raised = "EncodingError" /\ exit_code # <<>>

(***************************************************************************)
(* Properties of the lines of a log that open no stage                     *)
(***************************************************************************)

\* The line that a step of the loop of parse_log reads.
LineRead == log_lines'[line_number']

\* A step of the loop of parse_log, on a blank line and on a line that is
\* not blank and opens no stage.
BlankRead ==
    pc = "parsing" /\ line_number' = line_number + 1 /\ Strip(LineRead) = <<>>
ContentRead ==
    /\ pc = "parsing"
    /\ line_number' = line_number + 1
    /\ Strip(LineRead) # <<>>
    /\ LineRead \notin OpeningLines[cfg]

\* What C19 says of a step that reads a line that is not blank and opens no
\* stage.
C19_Content ==
    /\ stack' = stack
    /\ root_steps' = root_steps
    /\ Len(all_steps') = Len(all_steps)
    /\ \A k \in DOMAIN all_steps :
           /\ all_steps'[k].children = all_steps[k].children
           /\ all_steps'[k].name = all_steps[k].name
           /\ all_steps'[k].level = all_steps[k].level
           /\ all_steps'[k].start_line = all_steps[k].start_line
           /\ all_steps'[k].lines =
                  IF stack # <<>> /\ k = stack[Len(stack)][2]
                  THEN Append(all_steps[k].lines, LineRead)
                  ELSE all_steps[k].lines

\* C19: a line of the log that is not blank and opens no stage becomes the
\* last of the lines of the stage on top of the stack, whatever its
\* indentation, and changes neither the stack, nor root_steps, nor the
\* children or the lines of any other stage; with an empty stack it changes
\* nothing; a blank line changes neither the stack nor any stage.
C19_ContentFrame ==
    [][/\ ContentRead => C19_Content
       /\ BlankRead => UNCHANGED <<stack, all_steps, root_steps>>]_vars

\* An unindented line has been dropped before any stage was open, the same
\* line has been appended to a stage of depth 4, and a blank line has been
\* read after it.
C19_Witness ==
    /\ pc = "parsing"
    /\ log_lines = <<LineUnindented, LineOpenBuild, LineUnindented, LineBlank>>
    /\ stack = <<<<4, 1>>>>
    /\ Len(all_steps) = 1
    /\ all_steps[1].lines = <<LineOpenBuild, LineUnindented>>

(***************************************************************************)
(* Properties of the stages that parse_log returns                         *)
(***************************************************************************)

\* The stages opened after stage k at the depth of k or above it.
ClosersOf(k) ==
    {j \in DOMAIN all_steps : j > k /\ all_steps[j].level <= all_steps[k].level}

\* C20: when parse_log has returned, no stage is open; the end_line of a
\* stage after which a stage of its depth or above is opened is the line
\* before the first such open, and the end_line of every other stage is the
\* number of lines of the log, blank lines at its end counted.
C20_FinalEndLines ==
    pc = "parsed_log" =>
        /\ stack = <<>>
        /\ \A k \in DOMAIN all_steps :
               all_steps[k].end_line =
                   IF ClosersOf(k) = {}
                   THEN Len(log_lines)
                   ELSE all_steps[Least(ClosersOf(k))].start_line - 1

\* parse_log has returned on a log of four lines that ends with a blank
\* line: the first stage was closed by the open on line 2, the second was
\* open at the end of the log.
C20_Witness ==
    /\ pc = "parsed_log"
    /\ log_lines = <<LineOpenAbd, LineOpenAbd, LineContent, LineBlank>>
    /\ Len(all_steps) = 2
    /\ all_steps[1].end_line = 1
    /\ all_steps[2].end_line = 4

(***************************************************************************)
(* Properties of calculate_indentation                                     *)
(***************************************************************************)

\* The number of leading characters of a line that are spaces or tabs.
IndentLength(line) ==
    IF \A i \in DOMAIN line : line[i] \in {" ", "\t"}
    THEN Len(line)
    ELSE Least({i \in DOMAIN line : line[i] \notin {" ", "\t"}}) - 1

\* The values of C23 for the lines without indentation, with two spaces
\* and with two tabs.
IndentationOfPlainExamples ==
    /\ line_text = TextNoIndent => indentation = <<0>>
    /\ line_text = <<" ", " ">> \o TextTwoSpaces => indentation = <<2>>
    /\ line_text = <<"\t", "\t">> \o TextOneTab => indentation = <<8>>

\* The line of the mixed example: two spaces, a tab, two spaces, text.
LineMixed == <<" ", " ", "\t", " ", " ">> \o TextMixed

C21_DepthsIncrease ==
    /\ \A i \in DOMAIN stack :
           /\ stack[i][1] = all_steps[stack[i][2]].level
           /\ i > 1 => stack[i - 1][1] < stack[i][1]
    /\ \A k \in DOMAIN all_steps :
           \A c \in DOMAIN all_steps[k].children :
               all_steps[all_steps[k].children[c]].level > all_steps[k].level

\* Stages at depths 0, 5 and 8 are open, each the child of the one below:
\* the steps between the levels are 5 and 3.
C21_Witness ==
    /\ pc = "parsing"
    /\ OpenDepths = <<0, 5, 8>>
    /\ all_steps[1].children = <<2>>
    /\ all_steps[2].children = <<3>>

(***************************************************************************)
(* Properties of the prefix of a line and of the wildcard target           *)
(***************************************************************************)

\* Line n of the log has opened a stage with the given name.
OpensStage(n, name) ==
    \E k \in DOMAIN all_steps :
        all_steps[k].start_line = n /\ all_steps[k].name = name

\* C22: a line that starts with a bracketed token that is no timestamp, or
\* with a timestamp that no flag and colon follow, keeps its text for the
\* scan for markers: `[Step 4/21] <X.dpr>: <build>` opens the stage <X.dpr>
\* and `[14:13:27] <build>: text` opens the stage <build>, and so with a tab
\* for the space and with the two tokens exchanged.
C22_OnlyTimestampStripped ==
    \A n \in DOMAIN log_lines :
        \A prefix \in {Timestamp, StepToken}, gap \in {" ", "\t"} :
            /\ log_lines[n] = PrefixedLine(prefix, gap, TextDprBuild)
                   => OpensStage(n, <<"<", "X", ".", "d", "p", "r", ">">>)
            /\ log_lines[n] = PrefixedLine(prefix, gap, TextBuild)
                   => OpensStage(n, <<"<", "b", "u", "i", "l", "d", ">">>)

\* The targets of cfg without the wildcard.
WithoutWildcard ==
    [cfg EXCEPT !.target_steps = SelectSeq(@, LAMBDA t : t.pattern # <<"*">>)]

\* C29: with the wildcard among the targets parse_log returns the stages
\* that it returns without it: no line opens a stage because it holds an
\* asterisk.
C29_WildcardSelectsOnly ==
    (pc = "parsed_log" /\ HasWildcard) =>
        /\ all_steps = parse_log(log_lines, WithoutWildcard).nodes
        /\ root_steps = parse_log(log_lines, WithoutWildcard).root_steps

(***************************************************************************)
(* Properties of the lines and the line ranges of the returned stages      *)
(***************************************************************************)

\* Stage k is open when line n is read: it was opened on or before line n
\* and no stage of its depth or above was opened after it up to line n.
OpenAt(k, n) ==
    /\ all_steps[k].start_line <= n
    /\ \A j \in ClosersOf(k) : all_steps[j].start_line > n

\* The stage on top of the stack when line n is read: the open stage that
\* was opened last; 0 when no stage is open.
OwnerOf(n) ==
    LET open == {k \in DOMAIN all_steps : OpenAt(k, n)}
    IN  IF open = {} THEN 0
        ELSE CHOOSE k \in open : \A j \in open : j <= k

\* The numbers of the lines of the log that are not blank, in order.
NonBlankNumbers ==
    SelectSeq([n \in DOMAIN log_lines |-> n],
              LAMBDA n : Strip(log_lines[n]) # <<>>)

\* The numbers of the lines that open a stage.
OpeningNumbers == {n \in DOMAIN log_lines : log_lines[n] \in OpeningLines[cfg]}

\* The numbers of the lines that stage k holds, in order.
NumbersOf(k) == SelectSeq(NonBlankNumbers, LAMBDA n : OwnerOf(n) = k)

\* C24: when parse_log has returned, every line that is not blank, from the
\* first line that opens a stage on, is in the lines of one stage, the one
\* that was on top of the stack when it was read, and in no other; the lines
\* of a stage are in the order of the log; the lines before the first open
\* are in no stage; there are as many stages as lines that open a stage, and
\* the first of the lines of a stage is the line that opened it.
C24_LinesPartition ==
    pc = "parsed_log" =>
        /\ Len(all_steps) = Cardinality(OpeningNumbers)
        /\ \A k \in DOMAIN all_steps :
               /\ all_steps[k].start_line \in OpeningNumbers
               /\ all_steps[k].lines[1] = log_lines[all_steps[k].start_line]
               /\ all_steps[k].lines =
                      [i \in DOMAIN NumbersOf(k) |-> log_lines[NumbersOf(k)[i]]]
        /\ \A i \in DOMAIN NonBlankNumbers :
               LET n == NonBlankNumbers[i]
               IN  IF OpeningNumbers # {} /\ n >= Least(OpeningNumbers)
                   THEN OwnerOf(n) \in DOMAIN all_steps
                   ELSE OwnerOf(n) = 0
        /\ SumOf([k \in DOMAIN all_steps |-> Len(all_steps[k].lines)])
               = Cardinality({n \in Range(NonBlankNumbers) :
                                  OpeningNumbers # {} /\ n >= Least(OpeningNumbers)})

\* parse_log has returned on a log whose first line is dropped, whose second
\* and third lines open a stage and a stage below it, and whose fourth line
\* is content of the inner stage.
C24_Witness ==
    /\ pc = "parsed_log"
    /\ log_lines = <<LineUnindented, LineOpenAbd, LineOpenBuild, LineUnindented>>
    /\ Len(all_steps) = 2
    /\ all_steps[1].lines = <<LineOpenAbd>>
    /\ all_steps[2].lines = <<LineOpenBuild, LineUnindented>>

\* The line range of stage k.
LineRange(k) == all_steps[k].start_line .. all_steps[k].end_line

\* In a list of stages the ranges are disjoint and increase.
RangesIncrease(steps) ==
    \A i, j \in DOMAIN steps :
        i < j => all_steps[steps[i]].end_line < all_steps[steps[j]].start_line

\* C25: when parse_log has returned, start_line <= end_line in every stage,
\* the range of a child lies in the range of its parent and starts after it,
\* the ranges of the children of a stage, and of the roots, are disjoint and
\* increase in the order of the list, and the pre-order walk of the forest
\* visits every stage once, in increasing start_line.
C25_NestedRanges ==
    pc = "parsed_log" =>
        /\ \A k \in DOMAIN all_steps :
               /\ all_steps[k].start_line <= all_steps[k].end_line
               /\ RangesIncrease(all_steps[k].children)
               /\ \A c \in Range(all_steps[k].children) :
                      /\ LineRange(c) \subseteq LineRange(k)
                      /\ all_steps[c].start_line > all_steps[k].start_line
        /\ RangesIncrease(root_steps)
        /\ LET walk == PreOrder(all_steps, root_steps)
           IN  /\ Len(walk) = Len(all_steps)
               /\ \A i \in DOMAIN walk : i > 1 =>
                      all_steps[walk[i - 1]].start_line < all_steps[walk[i]].start_line

\* parse_log has returned two roots, the first with two children.
C25_Witness ==
    /\ pc = "parsed_log"
    /\ root_steps = <<1, 4>>
    /\ all_steps[1].children = <<2, 3>>
    /\ all_steps[1].end_line = 3
    /\ all_steps[2].end_line = 2

(***************************************************************************)
(* Properties of the stages of a Summary                                   *)
(***************************************************************************)

\* C26: when compare_logs returns a Summary, every stage name of the old or
\* of the new list has one entry in by_stage, by_stage has no entry for
\* another name, and every entry has an added or a removed record or an
\* unchanged key: the test before the append to by_stage leaves no stage out.
C26_EveryStageOnce ==
    (Compared /\ summary.raised = "none") =>
        LET names == StageNamesIn(old_warnings) \cup StageNamesIn(new_warnings)
        IN  /\ \A name \in names : Cardinality(ResultsFor(summary, name)) = 1
            /\ Len(summary.by_stage) = Cardinality(names)
            /\ \A i \in DOMAIN summary.by_stage :
                   /\ summary.by_stage[i].stage_name \in names
                   /\ \/ summary.by_stage[i].added # <<>>
                      \/ summary.by_stage[i].removed # <<>>
                      \/ summary.by_stage[i].unchanged_count > 0

\* Two stages have been compared, one of them only in the old list and one
\* in both lists with the same key.
C26_Witness ==
    /\ pc = "compared"
    /\ summary.raised = "none"
    /\ StageNamesIn(old_warnings) = {StageA, StageB}
    /\ StageNamesIn(new_warnings) = {StageA}
    /\ Len(summary.by_stage) = 2
    /\ summary.by_stage[1].added = <<>>
    /\ summary.by_stage[1].removed = <<>>

(***************************************************************************)
(* Properties of the target stages as a whole                              *)
(***************************************************************************)

\* The lines of the target stages and of the stages below them that hold a
\* configured warning pattern, as pairs of a stage and a position in its
\* lines.
DiagnosticLinesOfTargets ==
    {<<k, i>> \in Range(TargetStages) \X (1..Len(log_lines)) :
        /\ i \in DOMAIN all_steps[k].lines
        /\ IsDiagnosticLine(all_steps[k].lines[i])}

\* C27: no stage returned by extract_target_steps is another one of them or
\* lies below another one, so the walk of extract_warnings over the targets
\* visits no stage twice, and the flat list of the run has one record for
\* each line with a warning pattern in the stages visited, not more records
\* than the log has such lines.
C27_TargetsNotNested ==
    /\ TargetsSelected =>
           /\ \A i, j \in DOMAIN old_target_steps.steps :
                  i # j =>
                      /\ old_target_steps.steps[i] # old_target_steps.steps[j]
                      /\ old_target_steps.steps[i]
                             \notin DescendantsOf(old_target_steps.steps[j])
           /\ \A i, j \in DOMAIN TargetStages :
                  i # j => TargetStages[i] # TargetStages[j]
    /\ pc = "old_extracted" =>
           /\ Len(old_warnings) = Cardinality(DiagnosticLinesOfTargets)
           /\ Len(old_warnings) <=
                  Cardinality({n \in DOMAIN log_lines : IsDiagnosticLine(log_lines[n])})

\* The only target returned holds a stage that matches a target too, with a
\* line that holds a warning pattern; the list has been extracted.
C27_Witness ==
    /\ pc = "old_extracted"
    /\ cfg = NestedTargetsConfig
    /\ old_target_steps.steps = <<1>>
    /\ \E k \in DescendantsOf(1) :
           /\ MatchesTarget(k)
           /\ \E i \in DOMAIN all_steps[k].lines :
                  IsDiagnosticLine(all_steps[k].lines[i])
    /\ Len(old_warnings) >= 1

(***************************************************************************)
(* Properties of the kinds of the records in a run of main                 *)
(***************************************************************************)

\* C28: in a run of main the kind of every record of the two flat lists is
\* "Warning" or "Hint", a configuration with a warning pattern of another
\* kind gets no further than validate_config, and compare_logs raises no
\* KeyError for a kind that by_type does not have.
C28_KnownKindsOnly ==
    env # NoEnv =>
        /\ \A i \in DOMAIN old_warnings : old_warnings[i].type \in {"Warning", "Hint"}
        /\ \A i \in DOMAIN new_warnings : new_warnings[i].type \in {"Warning", "Hint"}
        /\ (cfg # NoConfig /\ \E p \in DOMAIN cfg.warning_patterns :
                                  cfg.warning_patterns[p].type \notin {"Warning", "Hint"})
               => /\ CallsOf("parse_log") = {}
                  /\ raised \in {"none", "ConfigValidationError"}
        /\ raised # "KeyError"
        /\ summary.raised \in {"unset", "none"}

\* A run of main has compared a list with a Warning and a list with a Hint
\* and has returned 0.
C28_Witness ==
    /\ pc = "returned"
    /\ exit_code = <<0>>
    /\ \E i \in DOMAIN old_warnings : old_warnings[i].type = "Warning"
    /\ \E i \in DOMAIN new_warnings : new_warnings[i].type = "Hint"
    /\ summary.by_type["Hint"].added = 1

============================================================================
